---- MODULE Spec2Model ----
(***************************************************************************)
(* Authentication and session lifecycle of k3rlll/threads: the AuthUsecase *)
(* (RegisterUser, LoginUser, RefreshSessionToken, LogoutSession,           *)
(* LogoutAllSessions, VerifyUser), the Postgres AuthRepo it calls, the    *)
(* JWTManager, and the gRPC and HTTP adapters in front of the usecase.     *)
(* The users and sessions tables are the shared state; every              *)
(* usecase call is one action, except RefreshSessionToken, which reads the *)
(* session in one repository call and writes it in another and is split   *)
(* at that point so that concurrent callers interleave.  The actions of    *)
(* the usecase leave the variable wire to their caller: a transport        *)
(* adapter that records its request there, or a direct call that leaves    *)
(* it unchanged.                                                           *)
(*                                                                         *)
(* Strings are sequences of one-character strings, so that len() and the   *)
(* range loops of the validators are computed as the code computes them.   *)
(* Time is counted in days.  A UUID is a natural number taken from a       *)
(* counter (uuid.NewUUID / uuid.New never repeat a value); its textual     *)
(* form is the pair <<"uuid", n>>.                                         *)
(***************************************************************************)
EXTENDS Integers, Sequences, FiniteSets, TLC

VARIABLES
    users,      \* rows of table users
    sessions,   \* rows of table sessions
    now,        \* time.Now(), in days
    nextUUID,   \* the next value uuid.NewUUID()/uuid.New() hands out
    calls,      \* the RefreshSessionToken calls in flight, per caller
    last,       \* the call that returned last: operation, arguments, results
    hist,       \* history: what was ever stored, issued, rotated, revoked
    storage,    \* the database connection: "up", or "flaky" (a statement may fail)
    wire,       \* the request a transport adapter handled last, and its answer
    main        \* func main: its goroutines, the two servers, the exit status

vars == <<users, sessions, now, nextUUID, calls, last, hist, storage, wire, main>>

----------------------------------------------------------------------------
(* Bounds of the model *)

MaxSessions == 2
MaxUUID == 7
MaxNow == 16
\* requests a server may be handling when the shutdown begins
MaxInFlight == 1

(* Program constants *)

\* 15 * 24 * time.Hour, in days
SessionTTL == 15
\* cfg.JWTConfig.ExpirationMinutes, the configured access-token lifetime
AccessTokenTTL == 1
MinUsernameLen == 3
MaxUsernameLen == 30
MinEmailLen == 5
MaxEmailLen == 50
MinPasswordLen == 8

Callers == {1, 2}

Nil == "nil"
NilUUID == 0

----------------------------------------------------------------------------
(* Inputs: the strings the callers send.  A character is a one-character     *)
(* string; "U+00E9" stands for the letter e with an acute accent, which is   *)
(* lower case and takes two bytes in UTF-8.  sAl, sNoAt, sShortMail and the  *)
(* passwords after sSecret9 are values that break one rule each.             *)

sAl == <<"a", "l">>
sAlice == <<"a", "l", "i", "c", "e">>
sAtName == <<"a", "@", "b", ".", "c">>
sMailX == <<"x", "@", "y", ".", "z">>
sNoAt == <<"a", "b", "c", "d", "e">>
sShortMail == <<"a", "@", "b">>
sPassw0rd == <<"P", "a", "s", "s", "w", "0", "r", "d", "!">>
sSecret9 == <<"S", "e", "c", "r", "e", "t", "9", "#">>
sLowerOnly == <<"p", "a", "s", "s", "w", "o", "r", "d">>
sGhost == <<"g", "h", "o", "s", "t">>
sBob == <<"b", "o", "b">>
sMailB == <<"b", "@", "y", ".", "z">>
sShort == <<"P", "a", "s", "0", "!">>
sNoUpper == <<"p", "a", "s", "s", "w", "0", "r", "d", "!">>
sNoLower == <<"P", "A", "S", "S", "W", "0", "R", "D", "!">>
sNoNumber == <<"P", "a", "s", "s", "w", "o", "r", "d", "!">>
sNoSpecial == <<"P", "a", "s", "s", "w", "0", "r", "d", "1">>
sSixChars == <<"A", "a", "1", "!", "U+00E9", "U+00E9">>
\* a password whose only special character is a double quote
sQuote == <<"A", "a", "1", "\"", "b", "c", "d", "e">>
\* valid passwords of 72 and of 73 bytes, equal in their first 72 bytes
sLong72 == <<"A", "a", "1", "!">> \o [i \in 1..68 |-> "b"]
sLong73 == sLong72 \o <<"x">>

Usernames == {sAlice, sAtName}
Emails == {sAtName, sMailX}
Passwords == {sPassw0rd, sSecret9}
Logins == {sAlice, sAtName, sMailX, sGhost}
\* the inputs of the registration scenarios: valid and invalid values
RegUsernames == {sAl, sAlice, sAtName}
RegEmails == {sNoAt, sShortMail, sAtName, sMailX}
RegPasswords == {sPassw0rd, sShort, sNoUpper, sLowerOnly, sNoLower, sNoNumber,
                 sNoSpecial, sSixChars, sQuote, sLong72, sLong73}
UserAgents == {"curl"}
ClientIPs == {"10.0.0.1"}

----------------------------------------------------------------------------
(* unicode character classes, restricted to ASCII and the letter U+00E9;
   "U+0060" stands for the backquote *)

UpperChars == {"A", "B", "C", "D", "E", "F", "G", "H", "I", "J", "K", "L", "M",
               "N", "O", "P", "Q", "R", "S", "T", "U", "V", "W", "X", "Y", "Z"}
LowerChars == {"a", "b", "c", "d", "e", "f", "g", "h", "i", "j", "k", "l", "m",
               "n", "o", "p", "q", "r", "s", "t", "u", "v", "w", "x", "y", "z",
               "U+00E9"}
NumberChars == {"0", "1", "2", "3", "4", "5", "6", "7", "8", "9"}
\* unicode.IsPunct: the ASCII characters of the categories Pc, Pd, Ps, Pe, Po
PunctChars == {"!", "\"", "#", "%", "&", "'", "(", ")", "*", ",", "-", ".", "/",
               ":", ";", "?", "@", "[", "\\", "]", "_", "{", "}"}
\* unicode.IsSymbol: the ASCII characters of the categories Sc, Sk, Sm
SymbolChars == {"$", "+", "<", "=", ">", "^", "U+0060", "|", "~"}

\* the characters whose UTF-8 encoding takes two bytes
TwoByteChars == {"U+00E9"}

Chars(s) == {s[i] : i \in 1..Len(s)}

\* len(s) of a Go string: the number of bytes of its UTF-8 encoding
GoLen(s) == Len(s) + Cardinality({i \in 1..Len(s) : s[i] \in TwoByteChars})

\* validatePassword: the first rule that fails, in the order the code tests
validatePassword(password) ==
    LET hasMinLen == GoLen(password) >= MinPasswordLen
        hasUpper == Chars(password) \cap UpperChars # {}
        hasLower == Chars(password) \cap LowerChars # {}
        hasNumber == Chars(password) \cap NumberChars # {}
        hasSpecial == Chars(password) \cap (PunctChars \cup SymbolChars) # {}
    IN  IF ~hasMinLen THEN "password must be at least 8 characters long"
        ELSE IF ~hasUpper THEN "password must contain at least one uppercase letter"
        ELSE IF ~hasLower THEN "password must contain at least one lowercase letter"
        ELSE IF ~hasNumber THEN "password must contain at least one number"
        ELSE IF ~hasSpecial THEN "password must contain at least one special character"
        ELSE Nil

containsAtSymbol(s) == \E i \in 1..Len(s) : s[i] = "@"

validateEmail(email) ==
    IF GoLen(email) < MinEmailLen \/ GoLen(email) > MaxEmailLen THEN FALSE
    ELSE IF ~containsAtSymbol(email) THEN FALSE
    ELSE TRUE

validateUsername(username) ==
    IF GoLen(username) < MinUsernameLen \/ GoLen(username) > MaxUsernameLen THEN FALSE
    ELSE TRUE

\* the longest password bcrypt hashes, in bytes
BcryptMaxLen == 72

\* []byte(s): the UTF-8 encoding of s, a two-byte character as its two bytes
RECURSIVE Bytes(_)
Bytes(s) ==
    IF s = <<>> THEN <<>>
    ELSE (IF Head(s) = "U+00E9" THEN <<"0xC3", "0xA9">> ELSE <<Head(s)>>)
         \o Bytes(Tail(s))

ErrPasswordTooLong == "bcrypt: password length exceeds 72 bytes"

\* the empty string in the place of a password hash
NoHash == [alg |-> "", of |-> <<>>]

\* bcrypt.GenerateFromPassword: a one-way hash value of the bytes of the
\* password, or ErrPasswordTooLong and the empty string
hashPassword(password) ==
    IF Len(Bytes(password)) > BcryptMaxLen
        THEN [hash |-> NoHash, err |-> ErrPasswordTooLong]
        ELSE [hash |-> [alg |-> "bcrypt", of |-> Bytes(password)], err |-> Nil]

\* bcrypt.CompareHashAndPassword(hash, password) == nil: bcrypt reads the
\* first 72 bytes of the password
verifyPassword(password, passwordHash) ==
    LET bytes == Bytes(password)
        read == IF Len(bytes) > BcryptMaxLen THEN SubSeq(bytes, 1, BcryptMaxLen)
                ELSE bytes
    IN  passwordHash.alg = "bcrypt" /\ passwordHash.of = read

----------------------------------------------------------------------------
(* UUID text form: uuid.UUID.String and uuid.Parse *)

UUIDString(u) == <<"uuid", u>>

NotAUUID == <<"garbage">>

\* uuid.Parse: the value and whether the text was well formed
UUIDParse(s) ==
    IF Len(s) = 2 /\ s[1] = "uuid" THEN [ok |-> TRUE, id |-> s[2]]
    ELSE [ok |-> FALSE, id |-> NilUUID]

----------------------------------------------------------------------------
(* Go error values, by their text *)

ErrNoRows == "no rows in result set"
ErrUniqueViolation == "duplicate key value violates unique constraint"
\* customerrors.ErrNoTagsAffected
ErrNoTagsAffected == "no tags affected"
\* the error of a pool.Exec or pool.QueryRow that could not reach the database
ErrConn == "failed to connect"
\* ctx.Err() of a cancelled request context, returned by pgx
ErrCanceled == "context canceled"
ErrInvalidSessionID == "invalid session ID"
ErrInvalidUserID == "invalid user ID"
ErrSessionExpired == "session has expired"
ErrInvalidCredentials == "invalid credentials"
ErrUserIsBlocked == "user is blocked"
ErrUsername == "username must be between 3 and 30 characters"
ErrEmail == "invalid email format"
ErrTokenMalformed == "token is malformed"
ErrTokenUnverifiable == "token is unverifiable"
ErrTokenSignatureInvalid == "token signature is invalid"
ErrTokenExpired == "token is expired"

\* the errors validatePassword returns
PasswordErrors ==
    {"password must be at least 8 characters long",
     "password must contain at least one uppercase letter",
     "password must contain at least one lowercase letter",
     "password must contain at least one number",
     "password must contain at least one special character"}

\* the zero value of entity.Session
ZeroSession ==
    [id |-> NilUUID, user_id |-> NilUUID, refresh_token |-> NilUUID,
     created_at |-> 0, expires_at |-> 0, user_agent |-> "", ip_address |-> ""]

----------------------------------------------------------------------------
(* AuthRepo: each method is its SQL statement applied to the table *)

\* the unique indexes of table users on email and on username
UniqueViolation(tbl, email, username) ==
    \E u \in tbl : u.email = email \/ u.username = username

\* CreateUser whose INSERT reports success without storing the row
CreateUserNoInsert(tbl, userID, email, username, passwordHash) ==
    [users |-> tbl, userID |-> userID, err |-> Nil]

\* INSERT INTO users (id, email, username, password_hash); is_blocked defaults
\* to false.  A violated unique index makes Exec return the error; an INSERT of
\* one row that returns no error has affected one row, so the RowsAffected
\* test never yields ErrNoTagsAffected.
CreateUser(tbl, userID, email, username, passwordHash) ==
    IF UniqueViolation(tbl, email, username)
    THEN [users |-> tbl, userID |-> NilUUID, err |-> ErrUniqueViolation]
    ELSE [users |-> tbl \cup {[id |-> userID, email |-> email, username |-> username,
                               password_hash |-> passwordHash, is_blocked |-> FALSE]},
          userID |-> userID, err |-> Nil]

\* CreateUser when the statement may not reach the database
CreateUserExec(tbl, userID, email, username, passwordHash, fail) ==
    IF fail THEN [users |-> tbl, userID |-> NilUUID, err |-> ErrConn]
    ELSE CreateUser(tbl, userID, email, username, passwordHash)

\* GetUserByLogin with the condition AND NOT is_blocked added
GetUserByLoginNotBlocked(tbl, login) ==
    LET rows == {u \in tbl : (u.username = login \/ u.email = login) /\ ~u.is_blocked}
    IN  IF rows = {}
        THEN {[userID |-> NilUUID, passwordHash |-> NoHash, err |-> ErrNoRows]}
        ELSE {[userID |-> u.id, passwordHash |-> u.password_hash, err |-> Nil] : u \in rows}

\* select id, password_hash from users where username = $1 OR email = $1.
\* QueryRow scans the first row of the result; the statement has no ORDER BY,
\* so any matching row may be the first: the set of possible results.
GetUserByLogin(tbl, login) ==
    LET rows == {u \in tbl : u.username = login \/ u.email = login}
    IN  IF rows = {}
        THEN {[userID |-> NilUUID, passwordHash |-> NoHash, err |-> ErrNoRows]}
        ELSE {[userID |-> u.id, passwordHash |-> u.password_hash, err |-> Nil] : u \in rows}

\* StoreSession that keeps one session per user: the INSERT replaces the
\* sessions the user already has
StoreSessionReplacing(tbl, userID, session) ==
    {x \in tbl : x.user_id # userID}
        \cup {[id |-> session.id, user_id |-> userID,
                refresh_token |-> session.refresh_token,
                created_at |-> session.created_at, expires_at |-> session.expires_at,
                user_agent |-> session.user_agent, ip_address |-> session.ip_address]}

\* INSERT INTO sessions (...) VALUES (session.ID, userID, session.RefreshToken, ...)
StoreSession(tbl, userID, session) ==
    tbl \cup {[id |-> session.id, user_id |-> userID,
               refresh_token |-> session.refresh_token,
               created_at |-> session.created_at, expires_at |-> session.expires_at,
               user_agent |-> session.user_agent, ip_address |-> session.ip_address]}

\* GetUserByLogin when the statement may not reach the database
GetUserByLoginExec(tbl, login, fail) ==
    IF fail
    THEN {[userID |-> NilUUID, passwordHash |-> NoHash, err |-> ErrConn]}
    ELSE GetUserByLogin(tbl, login)

\* StoreSession whose INSERT is written although Exec reports an error
StoreSessionExecLeavesRow(tbl, userID, session, fail) ==
    [sessions |-> StoreSession(tbl, userID, session),
     err |-> IF fail THEN ErrConn ELSE Nil]

\* StoreSession when the statement may not reach the database: the table
\* afterwards and the error of Exec
StoreSessionExec(tbl, userID, session, fail) ==
    IF fail THEN [sessions |-> tbl, err |-> ErrConn]
    ELSE [sessions |-> StoreSession(tbl, userID, session), err |-> Nil]

\* DeleteSession without the user_id condition
DeleteSessionIgnoresUser(tbl, userID, sessionID) ==
    {s \in tbl : s.id # sessionID}

\* DELETE FROM sessions WHERE id = $1 AND user_id = $2
DeleteSession(tbl, userID, sessionID) ==
    {s \in tbl : ~(s.id = sessionID /\ s.user_id = userID)}

\* DeleteAllSessions without a WHERE clause
DeleteAllSessionsEveryone(tbl, userID) == {}

\* DELETE FROM sessions WHERE user_id = $1
DeleteAllSessions(tbl, userID) ==
    {s \in tbl : s.user_id # userID}

\* RefreshSession written as an upsert: the row is inserted when none matches
RefreshSessionUpsert(tbl, session) ==
    IF \E s \in tbl : s.id = session.id /\ s.user_id = session.user_id
    THEN {IF s.id = session.id /\ s.user_id = session.user_id
          THEN [s EXCEPT !.created_at = session.created_at,
                         !.expires_at = session.expires_at,
                         !.refresh_token = session.refresh_token]
          ELSE s : s \in tbl}
    ELSE tbl \cup {session}

\* RefreshSession with the two timestamp arguments in each other's place
RefreshSessionSwapsTimes(tbl, session) ==
    {IF s.id = session.id /\ s.user_id = session.user_id
     THEN [s EXCEPT !.created_at = session.expires_at,
                    !.expires_at = session.created_at,
                    !.refresh_token = session.refresh_token]
     ELSE s : s \in tbl}

\* RefreshSession without the id condition: every session of the user
RefreshSessionAllOfUser(tbl, session) ==
    {IF s.user_id = session.user_id
     THEN [s EXCEPT !.created_at = session.created_at,
                    !.expires_at = session.expires_at,
                    !.refresh_token = session.refresh_token]
     ELSE s : s \in tbl}

\* UPDATE sessions SET created_at, expires_at, refresh_token
\* WHERE id = $4 AND user_id = $5; the number of rows updated is not looked at
RefreshSession(tbl, session) ==
    {IF s.id = session.id /\ s.user_id = session.user_id
     THEN [s EXCEPT !.created_at = session.created_at,
                    !.expires_at = session.expires_at,
                    !.refresh_token = session.refresh_token]
     ELSE s : s \in tbl}

\* SELECT id, user_id, created_at, expires_at, user_agent, ip_address
\* FROM sessions WHERE refresh_token = $1: refresh_token itself is not scanned,
\* so the struct keeps its zero RefreshToken.  The set of possible results.
GetSessionByRefreshToken(tbl, refreshToken) ==
    LET rows == {s \in tbl : s.refresh_token = refreshToken}
    IN  IF rows = {}
        THEN {[session |-> ZeroSession, err |-> ErrNoRows]}
        ELSE {[session |-> [s EXCEPT !.refresh_token = NilUUID], err |-> Nil] : s \in rows}

\* SELECT is_blocked FROM users WHERE id = $1; returns !isBlocked
UserIsBlocked(tbl, userID) ==
    LET rows == {u \in tbl : u.id = userID}
    IN  IF rows = {}
        THEN [blocked |-> FALSE, err |-> ErrNoRows]
        ELSE [blocked |-> ~(CHOOSE u \in rows : TRUE).is_blocked, err |-> Nil]

\* the remaining methods when the statement may not reach the database: the
\* table afterwards and the error of Exec or Scan
GetSessionByRefreshTokenExec(tbl, refreshToken, fail) ==
    IF fail THEN {[session |-> ZeroSession, err |-> ErrConn]}
    ELSE GetSessionByRefreshToken(tbl, refreshToken)

RefreshSessionExec(tbl, session, fail) ==
    IF fail THEN [sessions |-> tbl, err |-> ErrConn]
    ELSE [sessions |-> RefreshSession(tbl, session), err |-> Nil]

DeleteSessionExec(tbl, userID, sessionID, fail) ==
    IF fail THEN [sessions |-> tbl, err |-> ErrConn]
    ELSE [sessions |-> DeleteSession(tbl, userID, sessionID), err |-> Nil]

DeleteAllSessionsExec(tbl, userID, fail) ==
    IF fail THEN [sessions |-> tbl, err |-> ErrConn]
    ELSE [sessions |-> DeleteAllSessions(tbl, userID), err |-> Nil]

UserIsBlockedExec(tbl, userID, fail) ==
    IF fail THEN [blocked |-> FALSE, err |-> ErrConn]
    ELSE UserIsBlocked(tbl, userID)

----------------------------------------------------------------------------
(* JWTManager.  A token string is the sequence <<header, claims, signature>>; *)
(* the empty string is <<>>.                                                  *)

\* manager.secretKey, a Go string
SecretKey == "s3cr3t"

AsBytes(str) == [type |-> "bytes", value |-> str]
AsString(str) == [type |-> "string", value |-> str]

HMACMethods == {"HS256", "HS384", "HS512"}

\* SigningMethodHMAC.Sign over the header and the claims
HMACSign(header, claims, key) == [mac |-> <<header, claims, key.value>>]

\* SigningMethodHMAC.Verify: the key must be a []byte
HMACVerify(header, claims, signature, key) ==
    IF key.type # "bytes" THEN "key is of invalid type"
    ELSE IF signature # HMACSign(header, claims, key) THEN "signature is invalid"
    ELSE Nil

\* jwt.NewWithClaims(HS256, {user_id, exp, iat}).SignedString([]byte(secretKey))
\* at time t
SignedAt(userID, t) ==
    LET header == [alg |-> "HS256", typ |-> "JWT"]
        claims == [user_id |-> userID, exp |-> t + AccessTokenTTL, iat |-> t]
    IN  <<header, claims, HMACSign(header, claims, AsBytes(SecretKey))>>

\* NewAccessToken that signs the claims of the user with identifier 1,
\* whoever it is called for
NewAccessTokenOfFirstUser(userID) == [token |-> SignedAt(1, now), err |-> Nil]

NewAccessToken(userID) == [token |-> SignedAt(userID, now), err |-> Nil]

\* MapClaims.GetSubject: the "sub" claim, "" when the claim is absent
GetSubject(claims) ==
    IF "sub" \in DOMAIN claims THEN claims.sub ELSE NilUUID

\* a verifier that reads the claims without validating the token, as
\* jwt.ParseUnverified does
VerifyAccessTokenUnverified(tokenString) ==
    IF Len(tokenString) # 3
    THEN [userID |-> NilUUID, err |-> ErrTokenMalformed]
    ELSE IF GetSubject(tokenString[2]) = NilUUID
    THEN [userID |-> NilUUID, err |-> ErrTokenMalformed]
    ELSE [userID |-> GetSubject(tokenString[2]), err |-> Nil]

\* jwt.Parse with the key function of the manager, then the subject claim.
\* The key function hands the secret back as a Go string.
VerifyAccessToken(tokenString) ==
    IF Len(tokenString) # 3
    THEN [userID |-> NilUUID, err |-> ErrTokenMalformed]
    ELSE LET header == tokenString[1]
             claims == tokenString[2]
             signature == tokenString[3]
             key == AsString(SecretKey)
         IN  IF header.alg \notin HMACMethods
             THEN [userID |-> NilUUID, err |-> ErrTokenUnverifiable]
             ELSE IF HMACVerify(header, claims, signature, key) # Nil
             THEN [userID |-> NilUUID, err |-> ErrTokenSignatureInvalid]
             ELSE IF "exp" \in DOMAIN claims /\ now > claims.exp
             THEN [userID |-> NilUUID, err |-> ErrTokenExpired]
             ELSE IF GetSubject(claims) = NilUUID
             THEN [userID |-> NilUUID, err |-> ErrTokenMalformed]
             ELSE [userID |-> GetSubject(claims), err |-> Nil]

----------------------------------------------------------------------------
(* State *)

Idle == [pc |-> "idle", arg |-> <<>>, at |-> 0, session |-> ZeroSession]

\* what a request carries to authenticate itself: gRPC metadata with or
\* without an authorization value, or none at all; the value with or without
\* the prefix "Bearer "
NoMetadata == [kind |-> "no metadata", bearer |-> FALSE, token |-> <<>>]
NoAuthorization == [kind |-> "no authorization", bearer |-> FALSE, token |-> <<>>]
Authorization(bearer, token) ==
    [kind |-> "authorization", bearer |-> bearer, token |-> token]

\* func main after the three g.Go calls: the goroutines have not run yet,
\* the servers are constructed, no signal has arrived
Started ==
    [pc |-> "g.Wait", status |-> 0, signal |-> FALSE, groupErr |-> Nil,
     grpc |-> [pc |-> "net.Listen", err |-> Nil],
     http |-> [pc |-> "StartServer", err |-> Nil],
     shutdown |-> [pc |-> "gCtx.Done", err |-> Nil],
     httpShutdown |-> "none", gracefulStop |-> "none",
     doneCh |-> FALSE, timeout |-> FALSE, forced |-> FALSE,
     grpcServer |-> "new", httpServer |-> "new", rpcs |-> 0, conns |-> 0,
     rpcStmts |-> 0, httpStmts |-> 0]

\* no Login request of a caller waits for its answer
NoPending == [transport |-> "none", method |-> "", credential |-> NoMetadata,
              chained |-> FALSE]

\* no request handled yet
NoRequest == [transport |-> "none", method |-> "", credential |-> NoMetadata,
              handler |-> FALSE, ctxUserID |-> <<>>, status |-> "", n |-> 0,
              login |-> [p \in Callers |-> NoPending]]

\* the request that an adapter answered: whether its handler was invoked, the
\* user identifier put into the handler's context, the status of the answer;
\* n tells one request from the next.  The requests are handled each in its
\* own goroutine: login holds, for each caller, the Login request whose
\* handler is still in LoginUser, whatever was answered in between.
Answered(transport, method, credential, handler, ctxUserID, status) ==
    [transport |-> transport, method |-> method, credential |-> credential,
     handler |-> handler, ctxUserID |-> ctxUserID, status |-> status,
     n |-> 1 - wire.n, login |-> wire.login]

\* the record w of a request of caller p: when it is a Login whose answer is
\* pending, the request is kept until its handler answers
Awaiting(w, p, chained) ==
    IF w.status = "pending" /\ w.method \in {"/auth.v1.AuthService/Login", "/login"}
    THEN [w EXCEPT !.login[p] = [transport |-> w.transport, method |-> w.method,
                                 credential |-> w.credential, chained |-> chained]]
    ELSE w

\* whether a statement sent to the database fails: never while the connection
\* is up, possibly when it is flaky
Faults == IF storage = "flaky" THEN BOOLEAN ELSE {FALSE}

NoCall == [op |-> "none", arg |-> <<>>, at |-> 0, err |-> Nil, out |-> <<>>,
           seen |-> ZeroSession, repo |-> <<>>]

\* one invocation of a repository method by the usecase, and its error
Call(method, err) == [method |-> method, err |-> err]

\* a returned call that invoked no repository method; at is the time of the
\* call, kept for the operations that read the clock or a timestamp
Returned(op, arg, err, out, seen) ==
    [op |-> op, arg |-> arg,
     at |-> IF op \in {"RegisterUser", "LogoutSession", "LogoutAllSessions"} THEN 0 ELSE now,
     err |-> err, out |-> out, seen |-> seen, repo |-> <<>>]

\* a returned call together with the repository methods it invoked, in order
Traced(r, repo) == [r EXCEPT !.repo = repo]

\* the history after the sessions table became tbl
Stored(h, tbl) ==
    [h EXCEPT !.ids = @ \cup {s.id : s \in tbl},
              !.tokens = @ \cup {<<s.refresh_token, s.user_id>> : s \in tbl}]

Init ==
    /\ users = {}
    /\ sessions = {}
    /\ now = 0
    /\ nextUUID = 1
    /\ calls = [p \in Callers |-> Idle]
    /\ last = NoCall
    /\ hist = [ids |-> {}, tokens |-> {}, issued |-> {}, rotations |-> {},
               revoked |-> {}]
    /\ storage = "up"
    /\ wire = NoRequest
    /\ main = Started

----------------------------------------------------------------------------
(* AuthUsecase *)

\* RegisterUser that tests the email before the username
RegisterUserEmailFirst(username, email, password) ==
    /\ nextUUID <= MaxUUID
    /\ IF ~validateEmail(email)
       THEN /\ last' = Returned("RegisterUser", <<username, email, password>>,
                                ErrEmail, <<NilUUID>>, ZeroSession)
            /\ UNCHANGED <<users, nextUUID>>
       ELSE IF ~validateUsername(username)
       THEN /\ last' = Returned("RegisterUser", <<username, email, password>>,
                                ErrUsername, <<NilUUID>>, ZeroSession)
            /\ UNCHANGED <<users, nextUUID>>
       ELSE IF validatePassword(password) # Nil
       THEN /\ last' = Returned("RegisterUser", <<username, email, password>>,
                                validatePassword(password), <<NilUUID>>, ZeroSession)
            /\ UNCHANGED <<users, nextUUID>>
       ELSE IF hashPassword(password).err # Nil
       THEN /\ last' = Returned("RegisterUser", <<username, email, password>>,
                                hashPassword(password).err, <<NilUUID>>, ZeroSession)
            /\ UNCHANGED <<users, nextUUID>>
       ELSE \E fail \in Faults :
            LET passwordHash == hashPassword(password).hash
                userID == nextUUID
                r == CreateUserExec(users, userID, email, username, passwordHash, fail)
            IN  /\ users' = r.users
                /\ nextUUID' = IF r.err = Nil THEN nextUUID + 1 ELSE nextUUID
                /\ last' = Traced(Returned("RegisterUser", <<username, email, password>>,
                                           r.err, <<r.userID>>, ZeroSession),
                                  <<Call("CreateUser", r.err)>>)
    /\ UNCHANGED <<sessions, now, calls, hist, storage, main>>

\* RegisterUser: the validators in order, the hash (whose error is returned
\* before anything is generated or stored), a new UUID, CreateUser.
\* A UUID generated for an insert that fails is never seen again by anyone, so
\* the counter moves only when the row is inserted.
RegisterUser(username, email, password) ==
    /\ nextUUID <= MaxUUID
    /\ IF ~validateUsername(username)
       THEN /\ last' = Returned("RegisterUser", <<username, email, password>>,
                                ErrUsername, <<NilUUID>>, ZeroSession)
            /\ UNCHANGED <<users, nextUUID>>
       ELSE IF ~validateEmail(email)
       THEN /\ last' = Returned("RegisterUser", <<username, email, password>>,
                                ErrEmail, <<NilUUID>>, ZeroSession)
            /\ UNCHANGED <<users, nextUUID>>
       ELSE IF validatePassword(password) # Nil
       THEN /\ last' = Returned("RegisterUser", <<username, email, password>>,
                                validatePassword(password), <<NilUUID>>, ZeroSession)
            /\ UNCHANGED <<users, nextUUID>>
       ELSE IF hashPassword(password).err # Nil
       THEN /\ last' = Returned("RegisterUser", <<username, email, password>>,
                                hashPassword(password).err, <<NilUUID>>, ZeroSession)
            /\ UNCHANGED <<users, nextUUID>>
       ELSE \E fail \in Faults :
            LET passwordHash == hashPassword(password).hash
                userID == nextUUID
                r == CreateUserExec(users, userID, email, username, passwordHash, fail)
            IN  /\ users' = r.users
                /\ nextUUID' = IF r.err = Nil THEN nextUUID + 1 ELSE nextUUID
                /\ last' = Traced(Returned("RegisterUser", <<username, email, password>>,
                                           r.err, <<r.userID>>, ZeroSession),
                                  <<Call("CreateUser", r.err)>>)
    /\ UNCHANGED <<sessions, now, calls, hist, storage, main>>

\* LoginUser, the two credential checks: the error returned for the row r that
\* GetUserByLogin produced, Nil when the credentials are accepted
LoginFailure(r, password) ==
    IF r.err # Nil THEN r.err
    ELSE IF ~verifyPassword(password, r.passwordHash) THEN ErrInvalidCredentials
    ELSE Nil

\* AuthHandler.Login on an error of LoginUser: echo.NewHTTPError(401,
\* "invalid credentials: " + err)
HTTPLoginError(err) ==
    [status |-> 401, message |-> <<"invalid credentials: ", err>>]

\* RPCAuthHandler.Login on an error of LoginUser
RPCLoginError(err) ==
    [code |-> "Unauthenticated", message |-> <<"invalid credentials">>]

\* LoginUser up to the return of GetUserByLogin and the test of the password.
\* A call whose credentials are refused returns here; the call of caller p
\* whose credentials are accepted goes on with LoginStore(p).
LoginLookup(p, login, password, userAgent, ip) ==
    /\ calls[p].pc = "idle"
    /\ \E fail \in Faults :
       \E r \in GetUserByLoginExec(users, login, fail) :
          IF LoginFailure(r, password) # Nil
          THEN /\ last' = Traced(Returned("LoginUser", <<login, password, userAgent, ip>>,
                                          LoginFailure(r, password),
                                          <<NilUUID, <<>>, <<>>>>, ZeroSession),
                                 <<Call("GetUserByLogin", r.err)>>)
               /\ UNCHANGED calls
          ELSE /\ nextUUID + 1 <= MaxUUID
               /\ Cardinality(sessions) < MaxSessions
               /\ calls' = [calls EXCEPT ![p] =
                               [pc |-> "verified",
                                arg |-> <<login, password, userAgent, ip>>,
                                at |-> now,
                                session |-> [ZeroSession EXCEPT !.user_id = r.userID]]]
               /\ UNCHANGED last
    /\ UNCHANGED <<users, sessions, now, nextUUID, hist, storage, main>>

\* LoginUser from NewAccessToken to the return: the access token, a new
\* refresh token and session ID, the session with the times read now, and
\* StoreSession.  The identifiers generated for a session that is not stored
\* are seen by nobody, so the counter moves only when the session is stored.
LoginStore(p) ==
    /\ calls[p].pc = "verified"
    /\ \E fail \in Faults :
       LET arg == calls[p].arg
           userID == calls[p].session.user_id
           access == NewAccessToken(userID)
           refreshToken == nextUUID
           session == [id |-> nextUUID + 1, user_id |-> userID,
                       refresh_token |-> refreshToken,
                       created_at |-> now, expires_at |-> now + SessionTTL,
                       user_agent |-> arg[3], ip_address |-> arg[4]]
           stored == StoreSessionExec(sessions, userID, session, fail)
       IN  /\ nextUUID + 1 <= MaxUUID
           /\ Cardinality(sessions) < MaxSessions
           /\ IF access.err # Nil
              THEN /\ last' = Traced(Returned("LoginUser", arg, access.err,
                                              <<NilUUID, <<>>, <<>>>>, ZeroSession),
                                     <<Call("GetUserByLogin", Nil)>>)
                   /\ UNCHANGED <<sessions, nextUUID, hist>>
              ELSE IF stored.err # Nil
              THEN /\ sessions' = stored.sessions
                   /\ last' = Traced(Returned("LoginUser", arg, stored.err,
                                              <<NilUUID, <<>>, <<>>>>, session),
                                     <<Call("GetUserByLogin", Nil),
                                       Call("StoreSession", stored.err)>>)
                   /\ UNCHANGED <<nextUUID, hist>>
              ELSE /\ sessions' = stored.sessions
                   /\ nextUUID' = nextUUID + 2
                   /\ hist' = [Stored(hist, sessions') EXCEPT
                                  !.issued = @ \cup {refreshToken}]
                   /\ last' = Traced(Returned("LoginUser", arg, Nil,
                                              <<userID, access.token,
                                                UUIDString(refreshToken)>>,
                                              session),
                                     <<Call("GetUserByLogin", Nil),
                                       Call("StoreSession", Nil)>>)
    /\ calls' = [calls EXCEPT ![p] = Idle]
    /\ UNCHANGED <<users, now, storage, main>>

\* RefreshSessionToken up to the return of GetSessionByRefreshToken
RefreshLookup(p, refreshToken) ==
    /\ calls[p].pc = "idle"
    /\ LET sid == UUIDParse(refreshToken)
       IN  IF ~sid.ok
           THEN /\ last' = Returned("RefreshSessionToken", <<refreshToken>>,
                                    ErrInvalidSessionID, <<<<>>, <<>>>>, ZeroSession)
                /\ UNCHANGED calls
           ELSE \E fail \in Faults :
                \E r \in GetSessionByRefreshTokenExec(sessions, sid.id, fail) :
                   IF r.err # Nil
                   THEN /\ last' = Traced(Returned("RefreshSessionToken", <<refreshToken>>,
                                                   r.err, <<<<>>, <<>>>>, ZeroSession),
                                          <<Call("GetSessionByRefreshToken", r.err)>>)
                        /\ UNCHANGED calls
                   ELSE /\ calls' = [calls EXCEPT ![p] =
                                       [pc |-> "lookedUp", arg |-> refreshToken,
                                        at |-> now, session |-> r.session]]
                        /\ UNCHANGED last
    /\ UNCHANGED <<users, sessions, now, nextUUID, hist, storage, main>>

\* RefreshSessionToken on the expired-session path, after DeleteSession
\* returned deleted: the error of DeleteSession is not assigned to anything
ExpiredSessionReturn(deleted) == ErrSessionExpired

\* the session RefreshSessionToken hands to RefreshSession: a new expiry, a new
\* creation time and the new refresh token
RotatedBy(session, refreshToken) ==
    [session EXCEPT !.expires_at = now + SessionTTL,
                    !.created_at = now,
                    !.refresh_token = refreshToken]

\* RefreshSessionToken run without interruption on table tbl with the new
\* refresh token newToken: the table afterwards, the error and the refresh
\* token returned.  The set of possible outcomes.
RefreshOutcome(tbl, refreshToken, newToken) ==
    {IF r.err # Nil
     THEN [sessions |-> tbl, err |-> r.err, token |-> NilUUID]
     ELSE IF r.session.expires_at < r.session.created_at
     THEN [sessions |-> DeleteSession(tbl, r.session.user_id, r.session.id),
           err |-> ErrSessionExpired, token |-> NilUUID]
     ELSE [sessions |-> RefreshSession(tbl, RotatedBy(r.session, newToken)),
           err |-> Nil, token |-> newToken] :
        r \in GetSessionByRefreshToken(tbl, refreshToken)}

\* RefreshSessionToken from the expiry test to the return.  The new refresh
\* token of an update that fails is seen by nobody, so the counter moves only
\* when the update is made.
RefreshRotate(p) ==
    /\ calls[p].pc = "lookedUp"
    /\ \E fail \in Faults :
       LET session == calls[p].session
           uid == session.user_id
           lookup == Call("GetSessionByRefreshToken", Nil)
       IN  IF session.expires_at < session.created_at
           THEN LET deleted == DeleteSessionExec(sessions, uid, session.id, fail)
                IN  /\ sessions' = deleted.sessions
                    /\ last' = [Traced(Returned("RefreshSessionToken", <<calls[p].arg>>,
                                                ExpiredSessionReturn(deleted),
                                                <<<<>>, <<>>>>, session),
                                       <<lookup, Call("DeleteSession", deleted.err)>>)
                                EXCEPT !.at = calls[p].at]
                    /\ UNCHANGED <<nextUUID, hist>>
           ELSE LET rotated == RotatedBy(session, nextUUID)
                    updated == RefreshSessionExec(sessions, rotated, fail)
                    access == NewAccessToken(uid)
                IN  /\ nextUUID <= MaxUUID
                    /\ sessions' = updated.sessions
                    /\ IF updated.err # Nil
                       THEN /\ last' = [Traced(Returned("RefreshSessionToken",
                                                        <<calls[p].arg>>, updated.err,
                                                        <<<<>>, <<>>>>, session),
                                               <<lookup, Call("RefreshSession", updated.err)>>)
                                        EXCEPT !.at = calls[p].at]
                            /\ UNCHANGED <<nextUUID, hist>>
                       ELSE /\ nextUUID' = nextUUID + 1
                            /\ hist' = [Stored(hist, sessions') EXCEPT
                                           !.issued = @ \cup {rotated.refresh_token},
                                           !.rotations = @ \cup
                                               {<<UUIDParse(calls[p].arg).id,
                                                  rotated.refresh_token>>}]
                            /\ last' = [Traced(Returned("RefreshSessionToken",
                                                        <<calls[p].arg>>, Nil,
                                                        <<access.token,
                                                          UUIDString(rotated.refresh_token)>>,
                                                        session),
                                               <<lookup, Call("RefreshSession", Nil)>>)
                                        EXCEPT !.at = calls[p].at]
    /\ calls' = [calls EXCEPT ![p] = Idle]
    /\ UNCHANGED <<users, now, storage, main>>

\* LogoutSession: both identifiers parsed, then DeleteSession
LogoutSession(userID, sessionID) ==
    /\ LET uid == UUIDParse(userID)
           sid == UUIDParse(sessionID)
       IN  IF ~uid.ok
           THEN /\ last' = Returned("LogoutSession", <<userID, sessionID>>,
                                    ErrInvalidUserID, <<>>, ZeroSession)
                /\ UNCHANGED sessions
           ELSE IF ~sid.ok
           THEN /\ last' = Returned("LogoutSession", <<userID, sessionID>>,
                                    ErrInvalidSessionID, <<>>, ZeroSession)
                /\ UNCHANGED sessions
           ELSE \E fail \in Faults :
                LET deleted == DeleteSessionExec(sessions, uid.id, sid.id, fail)
                IN  /\ sessions' = deleted.sessions
                    /\ last' = Traced(Returned("LogoutSession", <<userID, sessionID>>,
                                               deleted.err, <<>>, ZeroSession),
                                      <<Call("DeleteSession", deleted.err)>>)
    /\ UNCHANGED <<users, now, nextUUID, calls, hist, storage, main>>

\* LogoutAllSessions that calls DeleteAllSessions again when it failed
LogoutAllSessionsRetrying(userID) ==
    /\ LET uid == UUIDParse(userID)
       IN  IF ~uid.ok
           THEN /\ last' = Returned("LogoutAllSessions", <<userID>>,
                                    ErrInvalidUserID, <<>>, ZeroSession)
                /\ UNCHANGED <<sessions, hist>>
           ELSE \E fail \in Faults, again \in Faults :
                LET first == DeleteAllSessionsExec(sessions, uid.id, fail)
                    second == DeleteAllSessionsExec(sessions, uid.id, again)
                    deleted == IF first.err = Nil THEN first ELSE second
                IN  /\ sessions' = deleted.sessions
                    /\ hist' = IF deleted.err # Nil THEN hist
                               ELSE [hist EXCEPT !.revoked =
                                       @ \cup {t[1] : t \in {x \in hist.tokens : x[2] = uid.id}}]
                    /\ last' = Traced(Returned("LogoutAllSessions", <<userID>>,
                                               deleted.err, <<>>, ZeroSession),
                                      IF first.err = Nil
                                      THEN <<Call("DeleteAllSessions", Nil)>>
                                      ELSE <<Call("DeleteAllSessions", first.err),
                                             Call("DeleteAllSessions", second.err)>>)
    /\ UNCHANGED <<users, now, nextUUID, calls, storage, main>>

\* LogoutAllSessions: the identifier parsed, then DeleteAllSessions
LogoutAllSessions(userID) ==
    /\ LET uid == UUIDParse(userID)
       IN  IF ~uid.ok
           THEN /\ last' = Returned("LogoutAllSessions", <<userID>>,
                                    ErrInvalidUserID, <<>>, ZeroSession)
                /\ UNCHANGED <<sessions, hist>>
           ELSE \E fail \in Faults :
                LET deleted == DeleteAllSessionsExec(sessions, uid.id, fail)
                IN  /\ sessions' = deleted.sessions
                    /\ hist' = IF deleted.err # Nil THEN hist
                               ELSE [hist EXCEPT !.revoked =
                                       @ \cup {t[1] : t \in {x \in hist.tokens : x[2] = uid.id}}]
                    /\ last' = Traced(Returned("LogoutAllSessions", <<userID>>,
                                               deleted.err, <<>>, ZeroSession),
                                      <<Call("DeleteAllSessions", deleted.err)>>)
    /\ UNCHANGED <<users, now, nextUUID, calls, storage, main>>

\* VerifyUser: VerifyAccessToken, then UserIsBlocked; what it returns and
\* the repository methods it invoked
VerifyUserExec(token, fail) ==
    LET v == VerifyAccessToken(token)
        b == UserIsBlockedExec(users, v.userID, fail)
        lookup == <<Call("UserIsBlocked", b.err)>>
    IN  IF v.err # Nil THEN [userID |-> NilUUID, err |-> v.err, repo |-> <<>>]
        ELSE IF b.err # Nil THEN [userID |-> NilUUID, err |-> b.err, repo |-> lookup]
        ELSE IF b.blocked
        THEN [userID |-> NilUUID, err |-> ErrUserIsBlocked, repo |-> lookup]
        ELSE [userID |-> v.userID, err |-> Nil, repo |-> lookup]

\* VerifyUser over a connection that is up
VerifyUserResult(token) ==
    [userID |-> VerifyUserExec(token, FALSE).userID,
     err |-> VerifyUserExec(token, FALSE).err]

VerifyUser(token) ==
    /\ \E fail \in Faults :
          last' = Traced(Returned("VerifyUser", <<token>>,
                                  VerifyUserExec(token, fail).err,
                                  <<VerifyUserExec(token, fail).userID>>, ZeroSession),
                         VerifyUserExec(token, fail).repo)
    /\ UNCHANGED <<users, sessions, now, nextUUID, calls, hist, storage, main>>

----------------------------------------------------------------------------
(* Repository calls that the database does not answer.  A call of the       *)
(* usecase is the record [op, args]; while its statement is stalled the     *)
(* caller is at "stalled", and at "cancelled" once the context of its       *)
(* request is cancelled or timed out.                                       *)

OpCall(op, args) == [op |-> op, args |-> args]

\* the context each repository method hands to pgx: the ctx parameter that
\* the usecase passes on from the request, except in UserIsBlocked, which
\* has no ctx parameter and calls QueryRow with context.Background()
ContextOf(method) ==
    IF method = "UserIsBlocked" THEN "background" ELSE "request"

\* the repository methods that the call c invokes in the current state, the
\* database answering each one before the last without error
Reaches(c) ==
    CASE c.op = "RegisterUser" ->
            IF /\ validateUsername(c.args[1])
               /\ validateEmail(c.args[2])
               /\ validatePassword(c.args[3]) = Nil
               /\ hashPassword(c.args[3]).err = Nil
            THEN {"CreateUser"} ELSE {}
      [] c.op = "LoginUser" ->
            {"GetUserByLogin"} \cup
            (IF \E r \in GetUserByLogin(users, c.args[1]) :
                    LoginFailure(r, c.args[2]) = Nil
             THEN {"StoreSession"} ELSE {})
      [] c.op = "RefreshSessionToken" ->
            IF ~UUIDParse(c.args[1]).ok THEN {}
            ELSE {"GetSessionByRefreshToken"} \cup
                 (IF \E r \in GetSessionByRefreshToken(sessions, UUIDParse(c.args[1]).id) :
                        r.err = Nil
                  THEN {IF r.session.expires_at < r.session.created_at
                        THEN "DeleteSession" ELSE "RefreshSession" :
                           r \in {x \in GetSessionByRefreshToken(
                                            sessions, UUIDParse(c.args[1]).id) :
                                     x.err = Nil}}
                  ELSE {})
      [] c.op = "LogoutSession" ->
            IF UUIDParse(c.args[1]).ok /\ UUIDParse(c.args[2]).ok
            THEN {"DeleteSession"} ELSE {}
      [] c.op = "LogoutAllSessions" ->
            IF UUIDParse(c.args[1]).ok THEN {"DeleteAllSessions"} ELSE {}
      [] c.op = "VerifyUser" ->
            IF VerifyAccessToken(c.args[1]).err = Nil
            THEN {"UserIsBlocked"} ELSE {}

\* what an operation returns besides its error when it fails
FailureOut(op) ==
    CASE op \in {"RegisterUser", "VerifyUser"} -> <<NilUUID>>
      [] op = "LoginUser" -> <<NilUUID, <<>>, <<>>>>
      [] op = "RefreshSessionToken" -> <<<<>>, <<>>>>
      [] OTHER -> <<>>

\* the repository calls the operation of c made, and was answered without
\* error, before it invoked method
CallsBefore(c, method) ==
    CASE c.op = "LoginUser" /\ method = "StoreSession" ->
            <<Call("GetUserByLogin", Nil)>>
      [] c.op = "RefreshSessionToken" /\ method \in {"RefreshSession", "DeleteSession"} ->
            <<Call("GetSessionByRefreshToken", Nil)>>
      [] OTHER -> <<>>

\* the session the operation of c holds when it invokes method: the one
\* LoginUser built for StoreSession, the row RefreshSessionToken read
SessionAt(c, method) ==
    CASE c.op = "LoginUser" /\ method = "StoreSession" ->
            {[id |-> nextUUID + 1, user_id |-> r.userID, refresh_token |-> nextUUID,
              created_at |-> now, expires_at |-> now + SessionTTL,
              user_agent |-> c.args[3], ip_address |-> c.args[4]] :
                r \in {x \in GetUserByLogin(users, c.args[1]) :
                          LoginFailure(x, c.args[2]) = Nil}}
      [] c.op = "RefreshSessionToken" /\ method \in {"RefreshSession", "DeleteSession"} ->
            {r.session : r \in {x \in GetSessionByRefreshToken(
                                          sessions, UUIDParse(c.args[1]).id) :
                                   x.err = Nil}}
      [] OTHER -> {ZeroSession}

\* the call c of caller p has invoked method and the database does not answer
Stall(p, c, method) ==
    /\ calls[p].pc = "idle"
    /\ method \in Reaches(c)
    /\ \E session \in SessionAt(c, method) :
          calls' = [calls EXCEPT ![p] =
                       [pc |-> "stalled", arg |-> <<c, method>>, at |-> now,
                        session |-> session]]
    /\ UNCHANGED <<users, sessions, now, nextUUID, last, hist, storage, main>>

\* the request of caller p is cancelled or times out while its call is stalled
Cancel(p) ==
    /\ calls[p].pc = "stalled"
    /\ calls' = [calls EXCEPT ![p].pc = "cancelled"]
    /\ UNCHANGED <<users, sessions, now, nextUUID, last, hist, storage, main>>

\* what the operation of c returns when the method it invoked fails with
\* err: the error of the method, except on the expired-session path of
\* RefreshSessionToken, where the error of DeleteSession is dropped
StalledError(c, method, err) ==
    IF c.op = "RefreshSessionToken" /\ method = "DeleteSession"
    THEN ExpiredSessionReturn([sessions |-> sessions, err |-> err])
    ELSE err

\* the stalled statement of caller p fails with err and the operation returns
StalledReturns(p, err) ==
    LET c == calls[p].arg[1]
        method == calls[p].arg[2]
    IN  /\ last' = [Traced(Returned(c.op, c.args, StalledError(c, method, err),
                                    FailureOut(c.op), calls[p].session),
                           CallsBefore(c, method) \o <<Call(method, err)>>)
                    EXCEPT !.at = IF c.op = "RefreshSessionToken" THEN calls[p].at ELSE @]
        /\ calls' = [calls EXCEPT ![p] = Idle]
        /\ UNCHANGED <<users, sessions, now, nextUUID, hist, storage, main>>

\* pgx returns ctx.Err() from a statement whose context is done: the
\* cancellation reaches the stalled call when the method was given the
\* context of the request
Interrupt(p) ==
    /\ calls[p].pc = "cancelled"
    /\ ContextOf(calls[p].arg[2]) = "request"
    /\ StalledReturns(p, ErrCanceled)

\* the connection of the stalled statement breaks
ConnectionLost(p) ==
    /\ calls[p].pc \in {"stalled", "cancelled"}
    /\ StalledReturns(p, ErrConn)

----------------------------------------------------------------------------
(* gRPC adapter: AuthInterceptor in front of RPCAuthHandler *)

RPCRegister == "/auth.v1.AuthService/Register"
RPCLogin == "/auth.v1.AuthService/Login"
RPCLogout == "/auth.v1.AuthService/Logout"
RPCLogoutAll == "/auth.v1.AuthService/LogoutAll"
RPCRefreshSession == "/auth.v1.AuthService/RefreshSession"

publicMethods == {RPCRegister, RPCLogin}
RPCMethods == publicMethods \cup {RPCLogout, RPCLogoutAll, RPCRefreshSession}

\* strings.TrimPrefix(values[0], "Bearer ")
TrimPrefixBearer(credential) == credential.token

\* what a JWTManager's VerifyAccessToken may return: a user identifier, or
\* one of the errors of the token library
JWTManagerAnswers ==
    {[userID |-> u.id, err |-> Nil] : u \in users}
        \cup {[userID |-> NilUUID, err |-> e] :
                 e \in {ErrTokenMalformed, ErrTokenUnverifiable,
                        ErrTokenSignatureInvalid, ErrTokenExpired}}

\* AuthInterceptor(jwtManager) up to the call of the handler, v being what
\* jwtManager.VerifyAccessToken returns for the token of md: whether the
\* handler is invoked, with which user identifier in its context, and the
\* status returned when it is not
AuthInterceptorOver(v, method, md) ==
    IF method \in publicMethods
    THEN [handler |-> TRUE, ctxUserID |-> <<>>, status |-> "OK"]
    ELSE IF md.kind = "no metadata"
    THEN [handler |-> FALSE, ctxUserID |-> <<>>, status |-> "Unauthenticated"]
    ELSE IF md.kind = "no authorization"
    THEN [handler |-> FALSE, ctxUserID |-> <<>>, status |-> "Unauthenticated"]
    ELSE IF v.err # Nil
    THEN [handler |-> FALSE, ctxUserID |-> <<>>, status |-> "Unauthenticated"]
    ELSE [handler |-> TRUE, ctxUserID |-> UUIDString(v.userID), status |-> "OK"]

\* AuthInterceptor with RefreshSession among the public methods
AuthInterceptorRefreshPublic(method, md) ==
    IF method = RPCRefreshSession
    THEN [handler |-> TRUE, ctxUserID |-> <<>>, status |-> "OK"]
    ELSE AuthInterceptorOver(VerifyAccessToken(TrimPrefixBearer(md)), method, md)

\* the interceptor of func main: interceptor.AuthInterceptor(jwtManager) with
\* the JWTManager that NewJWTManager built, the one the usecase is given
AuthInterceptor(method, md) ==
    AuthInterceptorOver(VerifyAccessToken(TrimPrefixBearer(md)), method, md)

\* the fields of the request messages; bind tells whether the body of an
\* HTTP request decodes into the request struct (c.Bind returns no error)
Request(username, email, password, login, userID, sessionID, refreshToken) ==
    [username |-> username, email |-> email, password |-> password,
     login |-> login, user_id |-> userID, session_id |-> sessionID,
     refresh_token |-> refreshToken, bind |-> TRUE]

\* an HTTP request whose body does not decode
Unbindable ==
    [Request(<<>>, <<>>, <<>>, <<>>, <<>>, <<>>, <<>>) EXCEPT !.bind = FALSE]

\* the user identifier the handlers of Logout and LogoutAll hand to the
\* usecase, for a request req handled in a context that carries ctxUserID:
\* req.GetUserId() in RPCAuthHandler, req.UserID in AuthHandler
LogoutUserID(ctxUserID, req) == req.user_id

\* RPCAuthHandler: the usecase call each method makes.  Login and
\* RefreshSession are the call of caller p up to the return of its lookup;
\* when the call goes on (LoginStore(p), RefreshRotate(p)) the answer is
\* pending.  No RefreshSession call of func main's server gets to its
\* handler: the interceptor lets none through.
RPCAuthHandler(method, ctxUserID, req, p) ==
    CASE method = RPCRegister ->
            RegisterUser(req.username, req.email, req.password)
      [] method = RPCLogin ->
            IF req.login = <<>> \/ req.password = <<>>
            THEN UNCHANGED <<users, sessions, now, nextUUID, calls, last, hist, storage, main>>
            ELSE \E ua \in UserAgents, ip \in ClientIPs :
                    LoginLookup(p, req.login, req.password, ua, ip)
      [] method = RPCLogout ->
            LogoutSession(LogoutUserID(ctxUserID, req), req.session_id)
      [] method = RPCLogoutAll ->
            LogoutAllSessions(LogoutUserID(ctxUserID, req))
      [] method = RPCRefreshSession ->
            RefreshLookup(p, req.refresh_token)

\* the status code RPCAuthHandler answers with, given the error of the
\* usecase call
RPCStatus(method, req, err, pending) ==
    IF method = RPCLogin /\ (req.login = <<>> \/ req.password = <<>>)
    THEN "InvalidArgument"
    ELSE IF pending THEN "pending"
    ELSE IF err = Nil THEN "OK"
    ELSE IF method = RPCLogin THEN "Unauthenticated"
    ELSE "Internal"

\* one unary call: the interceptor, then the handler
RPCRequest(method, md, req, p) ==
    LET gate == AuthInterceptor(method, md)
    IN  IF ~gate.handler
        THEN /\ wire' = Answered("rpc", method, md, FALSE, <<>>, gate.status)
             /\ UNCHANGED <<users, sessions, now, nextUUID, calls, last, hist, storage, main>>
        ELSE /\ RPCAuthHandler(method, gate.ctxUserID, req, p)
             /\ wire' = Awaiting(Answered("rpc", method, md, TRUE, gate.ctxUserID,
                                          RPCStatus(method, req, last'.err,
                                                    \/ /\ method = RPCRefreshSession
                                                       /\ calls'[p].pc = "lookedUp"
                                                    \/ /\ method = RPCLogin
                                                       /\ calls'[p].pc = "verified")),
                                 p, FALSE)

----------------------------------------------------------------------------
(* gRPC interceptor chain: RecoveryInterceptor, LoggingInterceptor,          *)
(* AuthInterceptor, then the handler.  What a handler hands back is a        *)
(* response and an error, or a panic; an error is nil, an RPC status or any  *)
(* other error; a message is the sequence of its parts.                      *)

NoResponse == "nil"

\* status.Error(code, message)
StatusError(code, message) == [kind |-> "status", code |-> code, message |-> message]
NoError == [kind |-> "nil", code |-> "OK", message |-> <<>>]
\* an error that carries no RPC status, such as the error of a usecase call
PlainError(text) == [kind |-> "error", code |-> "Unknown", message |-> <<text>>]

Returns(resp, err) == [panic |-> FALSE, resp |-> resp, err |-> err]
Panics == [panic |-> TRUE, resp |-> NoResponse, err |-> NoError]

\* the status AuthInterceptor rejects a call with
AuthInterceptorError(md) ==
    IF md.kind = "no metadata"
    THEN StatusError("Unauthenticated", <<"missing metadata">>)
    ELSE IF md.kind = "no authorization"
    THEN StatusError("Unauthenticated", <<"missing authorization token">>)
    ELSE StatusError("Unauthenticated",
                     <<"invalid token: ",
                       VerifyAccessToken(TrimPrefixBearer(md)).err>>)

\* the status RPCAuthHandler returns when its usecase call failed
RPCHandlerError(method) ==
    CASE method = RPCRegister -> StatusError("Internal", <<"failed to register user">>)
      [] method = RPCLogin ->
            StatusError(RPCLoginError(Nil).code, RPCLoginError(Nil).message)
      [] method = RPCLogout -> StatusError("Internal", <<"failed to logout session">>)
      [] method = RPCLogoutAll ->
            StatusError("Internal", <<"failed to logout all sessions">>)
      [] method = RPCRefreshSession ->
            StatusError("Internal", <<"failed to refresh session token">>)

\* LoggingInterceptor: a nil error and an error with a status go through;
\* any other error becomes Internal "internal server error" with a nil
\* response.  A panic of the handler unwinds through it.
LoggingInterceptor(result) ==
    IF result.panic THEN result
    ELSE IF result.err.kind = "nil" THEN Returns(result.resp, NoError)
    ELSE IF result.err.kind = "status" THEN Returns(result.resp, result.err)
    ELSE Returns(NoResponse, StatusError("Internal", <<"internal server error">>))

\* RecoveryInterceptor: the deferred function recovers a panic and sets the
\* named result err; resp keeps its zero value
RecoveryInterceptor(result) ==
    IF result.panic
    THEN Returns(NoResponse, StatusError("Internal", <<"internal server error">>))
    ELSE result

\* grpc.ChainUnaryInterceptor(RecoveryInterceptor, LoggingInterceptor,
\* AuthInterceptor) around a handler that hands back result: what the
\* client is answered, and what the handler behind LoggingInterceptor
\* handed back
ChainUnaryInterceptor(method, md, result) ==
    LET gate == AuthInterceptor(method, md)
        inner == IF gate.handler THEN result
                 ELSE Returns(NoResponse, AuthInterceptorError(md))
    IN  [gate |-> gate, inner |-> inner,
         answer |-> RecoveryInterceptor(LoggingInterceptor(inner))]

\* what RPCAuthHandler hands back with its answer of the status code
RPCHandlerResult(method, code) ==
    IF code = "OK" THEN Returns("response", NoError)
    ELSE IF code = "InvalidArgument"
    THEN Returns(NoResponse, StatusError("InvalidArgument", <<"login or password is empty">>))
    ELSE Returns(NoResponse, RPCHandlerError(method))

\* the call the adapter recorded as w, seen through the chain: what the
\* handler behind LoggingInterceptor handed back, and what the client is
\* answered
Chained(w) ==
    LET c == ChainUnaryInterceptor(w.method, w.credential,
                                   RPCHandlerResult(w.method, w.status))
    IN  [transport |-> w.transport, method |-> w.method, credential |-> w.credential,
         handler |-> w.handler, ctxUserID |-> w.ctxUserID, status |-> w.status,
         n |-> w.n, login |-> w.login, inner |-> c.inner, answer |-> c.answer]

\* one unary call of func main's server: the chain, then the method of
\* RPCAuthHandler with the state change of its usecase call
RPCServe(method, md, req, p) ==
    LET gate == AuthInterceptor(method, md)
    IN  IF ~gate.handler
        THEN /\ wire' = Chained(Answered("rpc", method, md, FALSE, <<>>, gate.status))
             /\ UNCHANGED <<users, sessions, now, nextUUID, calls, last, hist, storage, main>>
        ELSE /\ RPCAuthHandler(method, gate.ctxUserID, req, p)
             /\ wire' = Chained(Awaiting(
                            Answered("rpc", method, md, TRUE, gate.ctxUserID,
                                     RPCStatus(method, req, last'.err,
                                               /\ method = RPCLogin
                                               /\ calls'[p].pc = "verified")),
                            p, TRUE))

----------------------------------------------------------------------------
(* HTTP adapter: MapRoutes, AuthMiddleware in front of AuthHandler *)

PublicRoutes == {"/register", "/login"}
ProtectedRoutes == {"/logout", "/logout_all"}

\* AuthMiddleware(authUsecase): VerifyUser on the token of the request;
\* the handler runs when it returns no error
AuthMiddleware(credential) ==
    LET r == VerifyUserResult(credential.token)
    IN  IF r.err # Nil
        THEN [handler |-> FALSE, ctxUserID |-> <<>>, status |-> "401", err |-> r.err]
        ELSE [handler |-> TRUE, ctxUserID |-> UUIDString(r.userID), status |-> "200",
              err |-> Nil]

\* AuthHandler: c.Bind, then the usecase call each route makes; a body that
\* does not bind is answered before any usecase call.  Login is the call of
\* caller p up to the return of its lookup.
AuthHandler(route, ctxUserID, req, p) ==
    IF ~req.bind
    THEN UNCHANGED <<users, sessions, now, nextUUID, calls, last, hist, storage, main>>
    ELSE CASE route = "/register" ->
                 RegisterUser(req.username, req.email, req.password)
           [] route = "/login" ->
                 \E ua \in UserAgents, ip \in ClientIPs :
                    LoginLookup(p, req.login, req.password, ua, ip)
           [] route = "/logout" ->
                 LogoutSession(LogoutUserID(ctxUserID, req), req.session_id)
           [] route = "/logout_all" ->
                 LogoutAllSessions(LogoutUserID(ctxUserID, req))

\* the status AuthHandler answers with, given the error of the usecase call
HTTPStatus(route, req, err, pending) ==
    IF ~req.bind THEN "400"
    ELSE IF pending THEN "pending"
    ELSE IF err = Nil
    THEN CASE route = "/register" -> "201"
           [] route = "/login" -> "200"
           [] OTHER -> "204"
    ELSE IF route = "/login" THEN "401" ELSE "500"

\* one request: the middleware of a protected route, then the handler
HTTPRequest(route, credential, req, p) ==
    LET gate == AuthMiddleware(credential)
    IN  IF route \in ProtectedRoutes /\ ~gate.handler
        THEN /\ wire' = Answered("http", route, credential, FALSE, <<>>, gate.status)
             /\ last' = Traced(Returned("VerifyUser", <<credential.token>>, gate.err,
                                        <<NilUUID>>, ZeroSession),
                               VerifyUserExec(credential.token, FALSE).repo)
             /\ UNCHANGED <<users, sessions, now, nextUUID, calls, hist, storage, main>>
        ELSE /\ AuthHandler(route, IF route \in ProtectedRoutes THEN gate.ctxUserID
                                     ELSE <<>>, req, p)
             /\ wire' = Awaiting(Answered("http", route, credential, TRUE,
                                          IF route \in ProtectedRoutes THEN gate.ctxUserID
                                          ELSE <<>>,
                                          HTTPStatus(route, req, last'.err,
                                                     /\ route = "/login"
                                                     /\ calls'[p].pc = "verified")),
                                 p, FALSE)

\* the Login handler of either transport from the return of the lookup to
\* its answer: the rest of LoginUser, then the answer to the Login request
\* of caller p, whatever other requests were answered since it came in
LoginAnswer(p) ==
    /\ wire.login[p] # NoPending
    /\ LoginStore(p)
    /\ LET pending == wire.login[p]
           req == Request(<<>>, <<>>, calls[p].arg[2], calls[p].arg[1], <<>>, <<>>, <<>>)
           answered == [Answered(pending.transport, pending.method, pending.credential,
                                 TRUE, <<>>,
                                 IF pending.transport = "rpc"
                                 THEN RPCStatus(RPCLogin, req, last'.err, FALSE)
                                 ELSE HTTPStatus("/login", req, last'.err, FALSE))
                        EXCEPT !.login[p] = NoPending]
       IN  wire' = IF pending.chained THEN Chained(answered) ELSE answered

\* the routes MapRoutes registers
MapRoutes == PublicRoutes \cup ProtectedRoutes

\* a request for a path MapRoutes registered no handler for: the router
\* answers 404 and no handler runs
HTTPNotFound(route, credential) ==
    /\ route \notin MapRoutes
    /\ wire' = Answered("http", route, credential, FALSE, <<>>, "404")
    /\ UNCHANGED <<users, sessions, now, nextUUID, calls, last, hist, storage, main>>

----------------------------------------------------------------------------
(* func main: the errgroup of the gRPC server, the HTTP server and the       *)
(* shutdown goroutine.  Each action is one step of one goroutine; a server   *)
(* is "new", "serving", closing ("stopping" / "shutdown"), "stopped" or      *)
(* "failed".                                                                 *)

service == <<users, sessions, now, nextUUID, calls, last, hist, storage, wire>>

ErrListen == "failed to listen gRPC"
ErrGRPCServe == "gRPC server failed"
ErrServerStopped == "gRPC server failed: grpc: the server has been stopped"
ErrHTTPServe == "HTTP server failed"

\* func main waits in g.Wait(): the pool is open and the goroutines of the
\* group run
Running == main.pc = "g.Wait"

\* the process has not exited: the handlers of the requests in flight run
Alive == main.pc # "exited"

\* gCtx is done: the interrupt signal cancelled ctx, or a goroutine of the
\* group returned an error
gCtxDone == main.signal \/ main.groupErr # Nil

\* errgroup: the first error returned by a goroutine is kept
FirstError(err) == IF main.groupErr = Nil THEN err ELSE main.groupErr

\* the status of a process that the interrupt signal terminated
StatusInterrupt == 130

\* os.Interrupt arrives.  While func main waits in g.Wait() the signal is
\* delivered to signal.NotifyContext, which cancels ctx.  Once func main has
\* returned, its deferred cancel() (the stop function of NotifyContext) has
\* run before pool.Close(): the signal has its default effect again and
\* terminates the process.
Signal ==
    /\ \/ /\ Running
          /\ ~main.signal
          /\ main' = [main EXCEPT !.signal = TRUE]
       \/ /\ main.pc = "pool.Close"
          /\ main' = [main EXCEPT !.pc = "exited", !.status = StatusInterrupt]
    /\ UNCHANGED service

\* gRPC goroutine: net.Listen("tcp", grpcAddr)
GRPCListen ==
    /\ Running
    /\ main.grpc.pc = "net.Listen"
    /\ \E ok \in BOOLEAN :
          main' = IF ok
                  THEN [main EXCEPT !.grpc.pc = "Serve"]
                  ELSE [main EXCEPT !.grpc = [pc |-> "returned", err |-> ErrListen],
                                    !.groupErr = FirstError(ErrListen)]
    /\ UNCHANGED service

\* gRPC goroutine: grpcServer.Serve(lis) is called.  On a server that Stop or
\* GracefulStop was called on, Serve closes lis and returns ErrServerStopped.
GRPCServe ==
    /\ Running
    /\ main.grpc.pc = "Serve"
    /\ main' = IF main.grpcServer \in {"stopping", "stopped"}
               THEN [main EXCEPT !.grpc = [pc |-> "returned", err |-> ErrServerStopped],
                                 !.groupErr = FirstError(ErrServerStopped)]
               ELSE [main EXCEPT !.grpc.pc = "serving", !.grpcServer = "serving"]
    /\ UNCHANGED service

\* gRPC goroutine: Serve returns an error of the listener
GRPCServeFails ==
    /\ Running
    /\ main.grpc.pc = "serving"
    /\ main.grpcServer = "serving"
    /\ main' = [main EXCEPT !.grpc = [pc |-> "returned", err |-> ErrGRPCServe],
                            !.groupErr = FirstError(ErrGRPCServe),
                            !.grpcServer = "failed"]
    /\ UNCHANGED service

\* gRPC goroutine: Serve returns nil once Stop or GracefulStop is through
GRPCServeReturns ==
    /\ Running
    /\ main.grpc.pc = "serving"
    /\ main.grpcServer = "stopped"
    /\ main' = [main EXCEPT !.grpc = [pc |-> "returned", err |-> Nil]]
    /\ UNCHANGED service

\* HTTP goroutine: e.StartServer(httpServer) listens, then serves.  On a
\* server that Shutdown was called on, Serve returns http.ErrServerClosed,
\* for which the goroutine returns nil.
HTTPStartServer ==
    /\ Running
    /\ main.http.pc = "StartServer"
    /\ \E ok \in BOOLEAN :
          main' = IF ~ok
                  THEN [main EXCEPT !.http = [pc |-> "returned", err |-> ErrHTTPServe],
                                    !.groupErr = FirstError(ErrHTTPServe),
                                    !.httpServer =
                                        IF main.httpServer = "new" THEN "failed"
                                        ELSE main.httpServer]
                  ELSE IF main.httpServer = "shutdown"
                  THEN [main EXCEPT !.http = [pc |-> "returned", err |-> Nil]]
                  ELSE [main EXCEPT !.http.pc = "serving", !.httpServer = "serving"]
    /\ UNCHANGED service

\* HTTP goroutine: StartServer returns an error other than ErrServerClosed
HTTPServeFails ==
    /\ Running
    /\ main.http.pc = "serving"
    /\ main.httpServer = "serving"
    /\ main' = [main EXCEPT !.http = [pc |-> "returned", err |-> ErrHTTPServe],
                            !.groupErr = FirstError(ErrHTTPServe),
                            !.httpServer = "failed"]
    /\ UNCHANGED service

\* HTTP goroutine: StartServer returns http.ErrServerClosed after Shutdown
HTTPServeReturns ==
    /\ Running
    /\ main.http.pc = "serving"
    /\ main.httpServer = "shutdown"
    /\ main' = [main EXCEPT !.http = [pc |-> "returned", err |-> Nil]]
    /\ UNCHANGED service

\* a client starts or ends an RPC or an HTTP request; a request may last
\* for ever.  The handler of a request in flight sends statements to the
\* database: pool.Exec and pool.QueryRow take a connection of the pool and
\* give it back when the statement returns, which it may never do.  A
\* request ends while its handler waits for no statement.
RPCBegins ==
    /\ Running
    /\ main.grpcServer = "serving"
    /\ main.rpcs < MaxInFlight
    /\ main' = [main EXCEPT !.rpcs = @ + 1]
    /\ UNCHANGED service

RPCStatement ==
    /\ Running
    /\ main.rpcStmts < main.rpcs
    /\ main' = [main EXCEPT !.rpcStmts = @ + 1]
    /\ UNCHANGED service

RPCStatementReturns ==
    /\ Alive
    /\ main.rpcStmts > 0
    /\ main' = [main EXCEPT !.rpcStmts = @ - 1]
    /\ UNCHANGED service

\* grpcServer.Stop() closed the connections, which cancels the context of
\* every RPC in flight: a statement given that context returns ctx.Err()
RPCStatementCancelled ==
    /\ main.forced
    /\ RPCStatementReturns

RPCEnds ==
    /\ Alive
    /\ main.rpcs > main.rpcStmts
    /\ main' = [main EXCEPT !.rpcs = @ - 1]
    /\ UNCHANGED service

HTTPBegins ==
    /\ Running
    /\ main.httpServer = "serving"
    /\ main.conns < MaxInFlight
    /\ main' = [main EXCEPT !.conns = @ + 1]
    /\ UNCHANGED service

HTTPStatement ==
    /\ Running
    /\ main.httpStmts < main.conns
    /\ main' = [main EXCEPT !.httpStmts = @ + 1]
    /\ UNCHANGED service

HTTPStatementReturns ==
    /\ Alive
    /\ main.httpStmts > 0
    /\ main' = [main EXCEPT !.httpStmts = @ - 1]
    /\ UNCHANGED service

HTTPEnds ==
    /\ Alive
    /\ main.conns > main.httpStmts
    /\ main' = [main EXCEPT !.conns = @ - 1]
    /\ UNCHANGED service

\* shutdown goroutine: <-gCtx.Done(), then the timeout context and the two
\* goroutines of the WaitGroup are started, and it waits in the select
ShutdownBegins ==
    /\ Running
    /\ main.shutdown.pc = "gCtx.Done"
    /\ gCtxDone
    /\ main' = [main EXCEPT !.shutdown.pc = "select",
                            !.httpShutdown = "started", !.gracefulStop = "started"]
    /\ UNCHANGED service

\* httpServer.Shutdown(shutdownCtx) is called: the listeners are closed, so
\* Serve returns; Shutdown waits for the connections
HTTPShutdown ==
    /\ Running
    /\ main.httpShutdown = "started"
    /\ main' = [main EXCEPT !.httpShutdown = "called", !.httpServer = "shutdown"]
    /\ UNCHANGED service

\* Shutdown returns: no connection is left, or shutdownCtx is done
HTTPShutdownReturns ==
    /\ Running
    /\ main.httpShutdown = "called"
    /\ main.conns = 0 \/ main.timeout
    /\ main' = [main EXCEPT !.httpShutdown = "returned"]
    /\ UNCHANGED service

\* grpcServer.GracefulStop() is called: the listeners are closed, no new RPC
\* is accepted; it waits for the RPCs in flight
GracefulStop ==
    /\ Running
    /\ main.gracefulStop = "started"
    /\ main' = [main EXCEPT !.gracefulStop = "called",
                            !.grpcServer = IF @ = "stopped" THEN @ ELSE "stopping"]
    /\ UNCHANGED service

\* GracefulStop returns: no RPC is left, or Stop closed the connections
GracefulStopReturns ==
    /\ Running
    /\ main.gracefulStop = "called"
    /\ main.rpcs = 0 \/ main.grpcServer = "stopped"
    /\ main' = [main EXCEPT !.gracefulStop = "returned", !.grpcServer = "stopped"]
    /\ UNCHANGED service

\* wg.Wait() returns and doneCh is closed
CloseDoneCh ==
    /\ Running
    /\ ~main.doneCh
    /\ main.httpShutdown = "returned"
    /\ main.gracefulStop = "returned"
    /\ main' = [main EXCEPT !.doneCh = TRUE]
    /\ UNCHANGED service

\* the 5 seconds of shutdownCtx pass
ShutdownTimeout ==
    /\ Running
    /\ main.shutdown.pc \in {"select", "returned"}
    /\ ~main.timeout
    /\ main' = [main EXCEPT !.timeout = TRUE]
    /\ UNCHANGED service

\* select, case <-doneCh: the servers stopped gracefully
SelectDone ==
    /\ Running
    /\ main.shutdown.pc = "select"
    /\ main.doneCh
    /\ main' = [main EXCEPT !.shutdown.pc = "returned"]
    /\ UNCHANGED service

\* select, case <-shutdownCtx.Done(): grpcServer.Stop() closes the listeners
\* and every connection
SelectTimeout ==
    /\ Running
    /\ main.shutdown.pc = "select"
    /\ main.timeout
    /\ main' = [main EXCEPT !.shutdown.pc = "returned", !.forced = TRUE,
                            !.grpcServer = "stopped", !.rpcs = 0]
    /\ UNCHANGED service

\* g.Wait() returns when the three goroutines have returned: os.Exit(1) on
\* an error, which runs no deferred call; otherwise func main returns and
\* its deferred calls run, the last of them pool.Close()
Wait ==
    /\ Running
    /\ main.grpc.pc = "returned"
    /\ main.http.pc = "returned"
    /\ main.shutdown.pc = "returned"
    /\ main' = IF main.groupErr # Nil
               THEN [main EXCEPT !.pc = "exited", !.status = 1]
               ELSE [main EXCEPT !.pc = "pool.Close"]
    /\ UNCHANGED service

\* defer pool.Close(): it returns once every connection of the pool has been
\* given back, and the process exits with status 0
PoolClose ==
    /\ main.pc = "pool.Close"
    /\ main.rpcStmts = 0
    /\ main.httpStmts = 0
    /\ main' = [main EXCEPT !.pc = "exited", !.status = 0]
    /\ UNCHANGED service

----------------------------------------------------------------------------
(* Environment *)

\* the administrator sets or clears users.is_blocked
SetBlocked(userID, flag) ==
    /\ \E u \in users : u.id = userID /\ u.is_blocked # flag
    /\ users' = {IF u.id = userID THEN [u EXCEPT !.is_blocked = flag] ELSE u : u \in users}
    /\ UNCHANGED <<sessions, now, nextUUID, calls, last, hist, storage, main, wire>>

\* the connection to the database degrades or recovers
SetStorage(state) ==
    /\ storage # state
    /\ storage' = state
    /\ UNCHANGED <<users, sessions, now, nextUUID, calls, last, hist, wire, main>>

\* time passes
Tick(d) ==
    /\ now + d <= MaxNow
    /\ now' = now + d
    /\ UNCHANGED <<users, sessions, calls, nextUUID, last, hist, storage, main, wire>>

\* what the callers hold: identifiers, refresh tokens handed out, and the
\* access tokens handed out together with the sessions still stored
UserIDStrings == {UUIDString(u.id) : u \in users} \cup {NotAUUID}
SessionIDStrings == {UUIDString(s.id) : s \in sessions} \cup {NotAUUID}
RefreshTokenStrings ==
    {UUIDString(t) : t \in hist.issued} \cup {UUIDString(NilUUID), NotAUUID}
MalformedToken == <<"garbage">>
AccessTokenStrings ==
    {SignedAt(s.user_id, s.created_at) : s \in sessions} \cup {MalformedToken}

\* the accounts of the session scenarios
SessionAccounts == {<<sAlice, sMailX, sPassw0rd>>}

\* sessions: login, concurrent refresh, logout, expiry
NextSession ==
    \/ \E a \in SessionAccounts : RegisterUser(a[1], a[2], a[3]) /\ UNCHANGED wire
    \/ \E p \in Callers, a \in SessionAccounts, ua \in UserAgents, ip \in ClientIPs :
          LoginLookup(p, a[1], a[3], ua, ip) /\ UNCHANGED wire
    \/ \E p \in Callers : LoginStore(p) /\ UNCHANGED wire
    \/ \E p \in Callers, rt \in RefreshTokenStrings :
          RefreshLookup(p, rt) /\ UNCHANGED wire
    \/ \E p \in Callers : RefreshRotate(p) /\ UNCHANGED wire
    \/ \E u \in UserIDStrings, s \in SessionIDStrings :
          LogoutSession(u, s) /\ UNCHANGED wire
    \/ \E u \in UserIDStrings : LogoutAllSessions(u) /\ UNCHANGED wire
    \/ \E d \in {SessionTTL + 1} : Tick(d)

SpecSession == Init /\ [][NextSession]_vars

\* credentials and access: registration, login, verification, blocking
NextAuth ==
    \/ \E u \in Usernames, e \in Emails, pw \in Passwords :
          RegisterUser(u, e, pw) /\ UNCHANGED wire
    \/ \E l \in Logins, pw \in Passwords, ua \in UserAgents, ip \in ClientIPs :
          LoginLookup(1, l, pw, ua, ip) /\ UNCHANGED wire
    \/ LoginStore(1) /\ UNCHANGED wire
    \/ \E t \in AccessTokenStrings : VerifyUser(t) /\ UNCHANGED wire
    \/ \E u \in users, f \in BOOLEAN : SetBlocked(u.id, f)
    \/ \E d \in {SessionTTL + 1} : Tick(d)

SpecAuth == Init /\ [][NextAuth]_vars

\* registration: every combination of valid and invalid inputs, with a
\* database connection that may fail
NextRegister ==
    \/ \E u \in RegUsernames, e \in RegEmails, pw \in RegPasswords :
          RegisterUser(u, e, pw) /\ UNCHANGED wire
    \/ \E st \in {"up", "flaky"} : SetStorage(st)

SpecRegister == Init /\ [][NextRegister]_vars

\* the accounts of the failure scenarios: one of them has a password of 72
\* bytes
FaultAccounts == SessionAccounts \cup {<<sBob, sMailB, sLong72>>}
\* the logins of the failure scenarios: the registered ones and an unknown one
FaultLogins == {sAlice, sBob, sGhost}
\* the passwords of the failure scenarios: the registered ones, a wrong one,
\* and the 72-byte one with a byte appended
FaultPasswords == Passwords \cup {sLong72, sLong73}

\* login over a database connection that may fail at any statement
NextFaults ==
    \/ \E a \in FaultAccounts : RegisterUser(a[1], a[2], a[3]) /\ UNCHANGED wire
    \/ \E l \in FaultLogins, pw \in FaultPasswords, ua \in UserAgents, ip \in ClientIPs :
          LoginLookup(1, l, pw, ua, ip) /\ UNCHANGED wire
    \/ LoginStore(1) /\ UNCHANGED wire
    \/ \E st \in {"up", "flaky"} : SetStorage(st)
    \/ \E d \in {SessionTTL + 1} : Tick(d)

SpecFaults == Init /\ [][NextFaults]_vars

\* the accounts of the two-user scenarios
TwoAccounts == {<<sAlice, sMailX, sPassw0rd>>, <<sBob, sMailB, sSecret9>>}

\* two users: login and the two logouts, with every pairing of a user
\* identifier and a session identifier
NextTwoUsers ==
    \/ \E a \in TwoAccounts : RegisterUser(a[1], a[2], a[3]) /\ UNCHANGED wire
    \/ \E a \in TwoAccounts, ua \in UserAgents, ip \in ClientIPs :
          LoginLookup(1, a[1], a[3], ua, ip) /\ UNCHANGED wire
    \/ LoginStore(1) /\ UNCHANGED wire
    \/ \E u \in UserIDStrings, s \in SessionIDStrings :
          LogoutSession(u, s) /\ UNCHANGED wire
    \/ \E u \in UserIDStrings : LogoutAllSessions(u) /\ UNCHANGED wire

SpecTwoUsers == Init /\ [][NextTwoUsers]_vars

\* what the clients of the adapters send
RPCCredentials ==
    {NoMetadata, NoAuthorization}
        \cup {Authorization(b, t) : b \in BOOLEAN, t \in AccessTokenStrings}
HTTPCredentials ==
    {NoAuthorization} \cup {Authorization(TRUE, t) : t \in AccessTokenStrings}
Requests(method) ==
    CASE method \in {RPCRegister, "/register"} ->
            {Request(a[1], a[2], a[3], <<>>, <<>>, <<>>, <<>>) : a \in SessionAccounts}
      [] method \in {RPCLogin, "/login"} ->
            {Request(<<>>, <<>>, sPassw0rd, l, <<>>, <<>>, <<>>) : l \in {sAlice, <<>>}}
      [] method \in {RPCLogout, "/logout"} ->
            {Request(<<>>, <<>>, <<>>, <<>>, u, sid, <<>>) :
                u \in UserIDStrings, sid \in SessionIDStrings}
      [] method \in {RPCLogoutAll, "/logout_all"} ->
            {Request(<<>>, <<>>, <<>>, <<>>, u, <<>>, <<>>) : u \in UserIDStrings}
      [] method = RPCRefreshSession ->
            {Request(<<>>, <<>>, <<>>, <<>>, <<>>, <<>>, rt) : rt \in RefreshTokenStrings}

\* the methods called in the gate scenarios: the public ones and the logouts
GateMethods == RPCMethods \ {RPCRefreshSession}

\* the bodies sent to a route: those of its requests, and one that does not
\* decode
HTTPRequests(route) == Requests(route) \cup {Unbindable}

\* the two transports in front of the usecase, and the administrator
NextGate ==
    \/ \E m \in GateMethods, md \in RPCCredentials, p \in {1} :
          \E req \in Requests(m) : RPCRequest(m, md, req, p)
    \/ \E r \in PublicRoutes \cup ProtectedRoutes, c \in HTTPCredentials :
          \E req \in HTTPRequests(r) : HTTPRequest(r, c, req, 1)
    \/ \E u \in users, f \in BOOLEAN : SetBlocked(u.id, f)
    \/ LoginAnswer(1)

SpecGate == Init /\ [][NextGate]_vars

\* two users with sessions, and the logout requests either of them sends
\* over the two transports
NextOwners ==
    \/ \E a \in TwoAccounts : RegisterUser(a[1], a[2], a[3]) /\ UNCHANGED wire
    \/ \E a \in TwoAccounts, ua \in UserAgents, ip \in ClientIPs :
          LoginLookup(1, a[1], a[3], ua, ip) /\ UNCHANGED wire
    \/ LoginStore(1) /\ UNCHANGED wire
    \/ \E m \in {RPCLogout, RPCLogoutAll}, md \in RPCCredentials, p \in {1} :
          \E req \in Requests(m) : RPCRequest(m, md, req, p)
    \/ \E r \in ProtectedRoutes, c \in HTTPCredentials :
          \E req \in HTTPRequests(r) : HTTPRequest(r, c, req, 1)

SpecOwners == Init /\ [][NextOwners]_vars

\* a token built by a client: any header and claims, signed with any key
Forge(header, claims, key) == <<header, claims, HMACSign(header, claims, key)>>

\* the keys a client may sign with: the configured secret and another one
ForgeKeys == {AsBytes(SecretKey), AsBytes("gu3ss")}

\* the algorithms a client may name: HMAC, RSA and none
ForgeAlgs == {"HS256", "RS256", "none"}

\* the expiry times of the forged tokens
ForgeExpiries == {0, MaxNow + 1}

\* the claims a client may send: a subject or a user_id, empty or not, with
\* an expiry
ForgeClaims ==
    {[sub |-> u, exp |-> e] : u \in {NilUUID, 1}, e \in ForgeExpiries}
        \cup {[user_id |-> 1, exp |-> e, iat |-> 0] : e \in ForgeExpiries}

\* the token strings presented to the verifier: forged ones, ones cut short
\* and the empty string
VerifyTokens ==
    {Forge([alg |-> a, typ |-> "JWT"], c, k) :
        a \in ForgeAlgs, c \in ForgeClaims, k \in ForgeKeys}
        \cup {MalformedToken, <<>>}

\* verification: tokens of every kind presented as time passes
NextVerify ==
    \/ \E a \in SessionAccounts : RegisterUser(a[1], a[2], a[3]) /\ UNCHANGED wire
    \/ \E t \in VerifyTokens : VerifyUser(t) /\ UNCHANGED wire
    \/ \E d \in {1} : Tick(d)

SpecVerify == Init /\ [][NextVerify]_vars

\* blocked accounts: the administrator blocks accounts on day 0 and never
\* unblocks them; logins and refreshes happen on any day
NextBlocked ==
    \/ \E a \in SessionAccounts : RegisterUser(a[1], a[2], a[3]) /\ UNCHANGED wire
    \/ \E a \in SessionAccounts, ua \in UserAgents, ip \in ClientIPs :
          LoginLookup(1, a[1], a[3], ua, ip) /\ UNCHANGED wire
    \/ LoginStore(1) /\ UNCHANGED wire
    \/ \E rt \in RefreshTokenStrings : RefreshLookup(1, rt) /\ UNCHANGED wire
    \/ RefreshRotate(1) /\ UNCHANGED wire
    \/ \E u \in users : now = 0 /\ SetBlocked(u.id, TRUE)
    \/ \E d \in {SessionTTL + 1} : Tick(d)

SpecBlocked == Init /\ [][NextBlocked]_vars

\* the login requests of the answer scenarios: a registered and an unknown
\* login, the right and a wrong password
AnswerLogins ==
    {Request(<<>>, <<>>, pw, l, <<>>, <<>>, <<>>) :
        l \in {sAlice, sGhost}, pw \in Passwords}

\* the answers of the adapters: registration and login over both
\* transports, refresh over gRPC
NextAnswers ==
    \/ \E req \in Requests("/register") : HTTPRequest("/register", NoAuthorization, req, 1)
    \/ \E req \in AnswerLogins \cup {Unbindable} :
          HTTPRequest("/login", NoAuthorization, req, 1)
    \/ \E req \in AnswerLogins : RPCRequest(RPCLogin, NoMetadata, req, 1)
    \/ \E md \in RPCCredentials, req \in Requests(RPCRefreshSession) :
          RPCRequest(RPCRefreshSession, md, req, 1)
    \/ LoginAnswer(1)

SpecAnswers == Init /\ [][NextAnswers]_vars

\* the refresh requests of a client that presents the refresh token of a
\* stored, unexpired session
ValidRefreshRequests ==
    {Request(<<>>, <<>>, <<>>, <<>>, <<>>, <<>>, UUIDString(x.refresh_token)) :
        x \in {y \in sessions : now <= y.expires_at}}

\* a client whose access token expires while its refresh token stays valid,
\* and its refresh requests over the two transports
NextRefresh ==
    \/ \E a \in SessionAccounts : RegisterUser(a[1], a[2], a[3]) /\ UNCHANGED wire
    \/ \E req \in AnswerLogins : RPCRequest(RPCLogin, NoMetadata, req, 1)
    \/ \E md \in RPCCredentials, req \in ValidRefreshRequests :
          RPCRequest(RPCRefreshSession, md, req, 1)
    \/ \E c \in HTTPCredentials : sessions # {} /\ HTTPNotFound("/refresh", c)
    \/ \E d \in {SessionTTL - 1} : Tick(d)
    \/ LoginAnswer(1)

SpecRefresh == Init /\ [][NextRefresh]_vars

\* the requests of the interceptor scenarios: a logout names a stored
\* session and its owner, a refresh presents a valid refresh token
InterceptorRequests(method) ==
    CASE method = RPCLogout ->
            {Request(<<>>, <<>>, <<>>, <<>>, UUIDString(x.user_id), UUIDString(x.id), <<>>) :
                x \in sessions}
      [] method = RPCLogoutAll ->
            {Request(<<>>, <<>>, <<>>, <<>>, UUIDString(u.id), <<>>, <<>>) : u \in users}
      [] method = RPCRefreshSession -> ValidRefreshRequests
      [] OTHER -> Requests(method)

\* every method of the service called with every kind of metadata, while
\* access tokens expire
NextInterceptor ==
    \/ \E m \in RPCMethods, md \in RPCCredentials, p \in {1} :
          \E req \in InterceptorRequests(m) : RPCRequest(m, md, req, p)
    \/ \E d \in {SessionTTL - 1} : Tick(d)
    \/ LoginAnswer(1)

SpecInterceptor == Init /\ [][NextInterceptor]_vars

\* the error texts of the database driver and of the token library
StorageErrors == {ErrNoRows, ErrConn, ErrUniqueViolation}
LibraryErrors ==
    {ErrTokenMalformed, ErrTokenUnverifiable, ErrTokenSignatureInvalid, ErrTokenExpired}

\* what a handler may hand back: the response or the status of
\* RPCAuthHandler, the plain error of a call it made, or a panic
HandlerResults(method) ==
    {Returns("response", NoError), Returns(NoResponse, RPCHandlerError(method)), Panics}
        \cup {Returns(NoResponse, PlainError(e)) : e \in StorageErrors \cup {ErrTokenMalformed}}

\* every method of the service called through the interceptor chain with
\* every kind of metadata, over a database connection that may fail, while
\* access tokens expire
NextChain ==
    \/ \E m \in RPCMethods, md \in RPCCredentials :
          \E req \in InterceptorRequests(m) : RPCServe(m, md, req, 1)
    \/ LoginAnswer(1)
    \/ \E st \in {"up", "flaky"} : SetStorage(st) /\ UNCHANGED wire
    \/ \E d \in {SessionTTL - 1} : Tick(d)

SpecChain == Init /\ [][NextChain]_vars

\* the process from the start of its goroutines to its exit
NextMain ==
    \/ Signal
    \/ GRPCListen
    \/ GRPCServe
    \/ GRPCServeFails
    \/ GRPCServeReturns
    \/ HTTPStartServer
    \/ HTTPServeFails
    \/ HTTPServeReturns
    \/ RPCBegins
    \/ RPCStatement
    \/ RPCStatementReturns
    \/ RPCStatementCancelled
    \/ RPCEnds
    \/ HTTPBegins
    \/ HTTPStatement
    \/ HTTPStatementReturns
    \/ HTTPEnds
    \/ ShutdownBegins
    \/ HTTPShutdown
    \/ HTTPShutdownReturns
    \/ GracefulStop
    \/ GracefulStopReturns
    \/ CloseDoneCh
    \/ ShutdownTimeout
    \/ SelectDone
    \/ SelectTimeout
    \/ Wait
    \/ PoolClose

\* every goroutine that can take a step takes it, the timer of shutdownCtx
\* fires, and a statement whose context is cancelled returns; signals,
\* failures of the servers, the requests of the clients and the answers of
\* the database may or may not happen
MainFairness ==
    /\ WF_vars(GRPCListen)
    /\ WF_vars(GRPCServe)
    /\ WF_vars(GRPCServeReturns)
    /\ WF_vars(HTTPStartServer)
    /\ WF_vars(HTTPServeReturns)
    /\ WF_vars(ShutdownBegins)
    /\ WF_vars(HTTPShutdown)
    /\ WF_vars(HTTPShutdownReturns)
    /\ WF_vars(GracefulStop)
    /\ WF_vars(GracefulStopReturns)
    /\ WF_vars(CloseDoneCh)
    /\ WF_vars(ShutdownTimeout)
    /\ WF_vars(SelectDone)
    /\ WF_vars(SelectTimeout)
    /\ WF_vars(RPCStatementCancelled)
    /\ WF_vars(Wait)
    /\ WF_vars(PoolClose)

SpecMain == Init /\ [][NextMain]_vars /\ MainFairness

\* the six operations over a database connection that may fail at any
\* statement
NextCalls ==
    \/ \E a \in SessionAccounts : RegisterUser(a[1], a[2], a[3]) /\ UNCHANGED wire
    \/ \E l \in FaultLogins, ua \in UserAgents, ip \in ClientIPs :
          LoginLookup(1, l, sPassw0rd, ua, ip) /\ UNCHANGED wire
    \/ LoginStore(1) /\ UNCHANGED wire
    \/ \E rt \in RefreshTokenStrings : RefreshLookup(1, rt) /\ UNCHANGED wire
    \/ RefreshRotate(1) /\ UNCHANGED wire
    \/ \E u \in UserIDStrings, sid \in SessionIDStrings :
          LogoutSession(u, sid) /\ UNCHANGED wire
    \/ \E u \in UserIDStrings : LogoutAllSessions(u) /\ UNCHANGED wire
    \/ \E t \in AccessTokenStrings : VerifyUser(t) /\ UNCHANGED wire
    \/ \E st \in {"up", "flaky"} : SetStorage(st)

SpecCalls == Init /\ [][NextCalls]_vars

\* two users and two callers: logins, concurrent refreshes, and logouts of
\* stored sessions by their owners
NextConcurrent ==
    \/ \E a \in TwoAccounts : RegisterUser(a[1], a[2], a[3]) /\ UNCHANGED wire
    \/ \E p \in Callers, a \in TwoAccounts, ua \in UserAgents, ip \in ClientIPs :
          LoginLookup(p, a[1], a[3], ua, ip) /\ UNCHANGED wire
    \/ \E p \in Callers : LoginStore(p) /\ UNCHANGED wire
    \/ \E p \in Callers, rt \in RefreshTokenStrings :
          RefreshLookup(p, rt) /\ UNCHANGED wire
    \/ \E p \in Callers : RefreshRotate(p) /\ UNCHANGED wire
    \/ \E x \in sessions :
          LogoutSession(UUIDString(x.user_id), UUIDString(x.id)) /\ UNCHANGED wire
    \/ \E u \in users : LogoutAllSessions(UUIDString(u.id)) /\ UNCHANGED wire

SpecConcurrent == Init /\ [][NextConcurrent]_vars

\* the calls whose repository statements may stall
StallCalls ==
    {OpCall("RegisterUser", <<a[1], a[2], a[3]>>) : a \in SessionAccounts}
        \cup {OpCall("LoginUser", <<l, sPassw0rd, ua, ip>>) :
                 l \in {sAlice, sGhost}, ua \in UserAgents, ip \in ClientIPs}
        \cup {OpCall("RefreshSessionToken", <<rt>>) : rt \in RefreshTokenStrings}
        \cup {OpCall("LogoutSession", <<UUIDString(x.user_id), UUIDString(x.id)>>) :
                 x \in sessions}
        \cup {OpCall("LogoutAllSessions", <<UUIDString(u.id)>>) : u \in users}
        \cup {OpCall("VerifyUser", <<t>>) : t \in AccessTokenStrings}

RepositoryMethods ==
    {"CreateUser", "GetUserByLogin", "StoreSession", "GetSessionByRefreshToken",
     "RefreshSession", "DeleteSession", "DeleteAllSessions", "UserIsBlocked"}

\* stalled statements and cancelled requests, after registration and login
NextStalls ==
    \/ \E a \in SessionAccounts : RegisterUser(a[1], a[2], a[3]) /\ UNCHANGED wire
    \/ \E a \in SessionAccounts, ua \in UserAgents, ip \in ClientIPs :
          LoginLookup(1, a[1], a[3], ua, ip) /\ UNCHANGED wire
    \/ LoginStore(1) /\ UNCHANGED wire
    \/ \E p \in Callers, c \in StallCalls, method \in RepositoryMethods :
          Stall(p, c, method) /\ UNCHANGED wire
    \/ \E p \in Callers : Cancel(p) /\ UNCHANGED wire
    \/ \E p \in Callers : Interrupt(p) /\ UNCHANGED wire
    \/ \E p \in Callers : ConnectionLost(p) /\ UNCHANGED wire

\* a statement whose context is done returns; nothing makes the database
\* answer a stalled statement or break its connection
SpecStalls ==
    /\ Init
    /\ [][NextStalls]_vars
    /\ \A p \in Callers : WF_vars(Interrupt(p) /\ UNCHANGED wire)

\* the devices of the login scenarios
LoginUserAgents == {"curl", "firefox"}
LoginClientIPs == {"10.0.0.1", "10.0.0.2"}

\* logins of two users from several devices, on different days
NextLogins ==
    \/ \E a \in TwoAccounts : RegisterUser(a[1], a[2], a[3]) /\ UNCHANGED wire
    \/ \E p \in Callers, a \in TwoAccounts, ua \in LoginUserAgents, ip \in LoginClientIPs :
          LoginLookup(p, a[1], a[3], ua, ip) /\ UNCHANGED wire
    \/ \E p \in Callers : LoginStore(p) /\ UNCHANGED wire
    \/ \E x \in sessions :
          LogoutSession(UUIDString(x.user_id), UUIDString(x.id)) /\ UNCHANGED wire
    \/ \E d \in {SessionTTL + 1} : Tick(d)

SpecLogins == Init /\ [][NextLogins]_vars

----------------------------------------------------------------------------
(* Properties of the session lifecycle, checked under SpecSession *)

SessionIDs(tbl) == {s.id : s \in tbl}
RefreshTokens(tbl) == {s.refresh_token : s \in tbl}

\* the refresh tokens that were ever the stored token of a session
EverStored == {t[1] : t \in hist.tokens}

\* the refresh tokens rt1 for which a RefreshSessionToken(rt1) returned success
RotatedAway == {r[1] : r \in hist.rotations}

\* a RefreshSessionToken call of caller p finds its session in this step
LookupSucceeds(p, token) ==
    /\ calls[p].pc = "idle"
    /\ calls'[p].pc = "lookedUp"
    /\ calls'[p].arg = UUIDString(token)

\* the errors with which the usecase itself refuses a credential, a token
\* or a session (errors.New in config.go); every other error an operation
\* returns is the error of a repository call or of a library, handed on as
\* it is
AuthenticationErrors ==
    {ErrInvalidSessionID, ErrSessionExpired, ErrInvalidCredentials, ErrUserIsBlocked}

\* a RefreshSessionToken(token) call returns in this step from its lookup
LookupFails(token) ==
    /\ last' # last
    /\ calls' = calls
    /\ last'.op = "RefreshSessionToken"
    /\ last'.arg[1] = UUIDString(token)

\* C1: once RefreshSessionToken(rt1) has returned success, rt1 never again
\* identifies a session, and every RefreshSessionToken(rt1) call that starts
\* afterwards fails with an authentication error, whatever ran in between
\* and whether or not the session has expired.
C1_RotatedTokenFailsAuthentication ==
    [][\A rt \in RotatedAway :
          /\ rt \notin RefreshTokens(sessions')
          /\ \A p \in Callers : ~LookupSucceeds(p, rt)
          /\ LookupFails(rt) => last'.err \in AuthenticationErrors]_vars

\* the part of C1 that the code keeps: once RefreshSessionToken(rt1) has
\* returned success, rt1 is the stored token of no session, and no
\* RefreshSessionToken(rt1) call that starts afterwards finds a session or
\* returns tokens: each such call ends in its lookup with an error.
C1_RotatedTokenNeverRefreshes ==
    [][\A rt \in RotatedAway :
          /\ rt \notin RefreshTokens(sessions')
          /\ \A p \in Callers : ~LookupSucceeds(p, rt)
          /\ LookupFails(rt) => (last'.err # Nil /\ last'.out = <<<<>>, <<>>>>)]_vars

\* C2: of the refresh tokens returned by two RefreshSessionToken calls made
\* with the same token rt1, at most one is ever stored as the refresh token
\* of the session.
C2_OneRotationPerToken ==
    \A r1 \in hist.rotations, r2 \in hist.rotations :
        (r1[1] = r2[1] /\ r1[2] # r2[2])
            => ~(r1[2] \in EverStored /\ r2[2] \in EverStored)

\* C3: the update of RefreshSessionToken is a compare-and-swap: when the
\* stored refresh token of the session is no longer the one the call looked
\* the session up with, the call leaves the sessions table as it is.
C3_RotationIsCompareAndSwap ==
    [][\A p \in Callers :
          (/\ calls[p].pc = "lookedUp"
           /\ calls'[p].pc = "idle"
           /\ \E s \in sessions :
                 /\ s.id = calls[p].session.id
                 /\ UUIDString(s.refresh_token) # calls[p].arg)
              => sessions' = sessions]_vars

\* C4: a RefreshSessionToken called after the expiresAt of the session it
\* finds fails with "session has expired", returns no tokens and deletes the
\* session.
C4_ExpiredSessionIsRejected ==
    (/\ last.op = "RefreshSessionToken"
     /\ last.seen # ZeroSession
     /\ last.at > last.seen.expires_at)
        => /\ last.err = ErrSessionExpired
           /\ last.out = <<<<>>, <<>>>>
           /\ last.seen.id \notin SessionIDs(sessions)

\* C6: after LogoutAllSessions(u) has returned, every RefreshSessionToken
\* call that starts afterwards with a refresh token that belonged to a
\* session of u before the logout finds no session and fails with an
\* authentication error.
C6_LogoutAllFailsAuthentication ==
    [][\A rt \in hist.revoked :
          /\ rt \notin RefreshTokens(sessions')
          /\ \A p \in Callers : ~LookupSucceeds(p, rt)
          /\ LookupFails(rt) => last'.err \in AuthenticationErrors]_vars

\* the part of C6 that the code keeps: after LogoutAllSessions(u) has
\* returned, no refresh token that belonged to a session of u before it is
\* stored, and no RefreshSessionToken call that starts afterwards with such
\* a token finds a session or returns tokens: it fails in its lookup.
C6_LogoutAllKillsRefreshTokens ==
    [][\A rt \in hist.revoked :
          /\ rt \notin RefreshTokens(sessions')
          /\ \A p \in Callers : ~LookupSucceeds(p, rt)
          /\ LookupFails(rt) => (last'.err # Nil /\ last'.out = <<<<>>, <<>>>>)]_vars

\* C9: a session that left the table never comes back, and neither does a
\* refresh token that stopped being the stored token of a session: every
\* session identifier and every refresh token that a step puts into the table
\* was never stored before.  This covers the RefreshSessionToken that read a
\* session before it was deleted or rotated by another call.
C9_NoWayBackToActive ==
    [][/\ (SessionIDs(sessions') \cap hist.ids) \subseteq SessionIDs(sessions)
       /\ (RefreshTokens(sessions') \cap EverStored) \subseteq RefreshTokens(sessions)]_vars

\* C9 witness: a refresh returned success although its session had been
\* deleted between its lookup and its update: the token it returned was never
\* stored, and the session it read is not in the table.
C9_Witness ==
    /\ last.op = "RefreshSessionToken"
    /\ last.err = Nil
    /\ UUIDParse(last.out[2]).id \notin EverStored
    /\ last.seen.id \in hist.ids
    /\ last.seen.id \notin SessionIDs(sessions)

\* the step is the return of a successful RefreshSessionToken of caller p
RefreshSucceeds(p) ==
    /\ calls[p].pc = "lookedUp"
    /\ calls'[p].pc = "idle"
    /\ last'.op = "RefreshSessionToken"
    /\ last'.err = Nil

\* C14: a successful RefreshSessionToken updates the session it looked up in
\* place: afterwards the table holds a session with the same id, owner, user
\* agent and client address, whose refresh token is the returned one and
\* differs from the presented one, with createdAt = now and expiresAt = now +
\* 15 days; every other session is untouched and no session is added or
\* removed.
C14_RefreshUpdatesInPlace ==
    [][\A p \in Callers :
          RefreshSucceeds(p) =>
              LET old == calls[p].session
                  newToken == UUIDParse(last'.out[2]).id
              IN  /\ \E s \in sessions' :
                        /\ s.id = old.id
                        /\ s.user_id = old.user_id
                        /\ s.user_agent = old.user_agent
                        /\ s.ip_address = old.ip_address
                        /\ s.refresh_token = newToken
                        /\ s.created_at = now
                        /\ s.expires_at = now + SessionTTL
                  /\ UUIDString(newToken) # calls[p].arg
                  /\ SessionIDs(sessions') = SessionIDs(sessions)
                  /\ \A s \in sessions : s.id # old.id => s \in sessions']_vars

\* C30: when RefreshSessionToken returns success, the table holds a session
\* of the same user whose refresh token is the returned value; a refresh
\* whose session was deleted between its lookup and its update does not
\* return success.
C30_SuccessfulRefreshHasRotated ==
    [][\A p \in Callers :
          RefreshSucceeds(p) =>
              \E s \in sessions' :
                  /\ s.user_id = calls[p].session.user_id
                  /\ UUIDString(s.refresh_token) = last'.out[2]]_vars

\* the value matches no stored session: it is not the text of a UUID, or no
\* session carries it as its refresh token
MatchesNoSession(value, tbl) ==
    \/ ~UUIDParse(value).ok
    \/ \A x \in tbl : x.refresh_token # UUIDParse(value).id

\* C26: RefreshSessionToken with a value that matches no stored session,
\* well-formed or not, fails with the error "invalid session ID", returns no
\* tokens and leaves table sessions unchanged.
C26_UnknownTokenIsInvalidSession ==
    [][(/\ last' # last
        /\ calls' = calls
        /\ last'.op = "RefreshSessionToken"
        /\ MatchesNoSession(last'.arg[1], sessions))
          => /\ last'.err = ErrInvalidSessionID
             /\ last'.out = <<<<>>, <<>>>>
             /\ sessions' = sessions]_vars

\* the part of C26 that the code keeps: such a call fails, returns no tokens
\* and leaves table sessions unchanged
C26_UnknownTokenFails ==
    [][(/\ last' # last
        /\ calls' = calls
        /\ last'.op = "RefreshSessionToken"
        /\ MatchesNoSession(last'.arg[1], sessions))
          => /\ last'.err \in {ErrInvalidSessionID, ErrNoRows}
             /\ last'.out = <<<<>>, <<>>>>
             /\ sessions' = sessions
             /\ hist'.issued = hist.issued]_vars

\* the refresh tokens that a successful RefreshSessionToken returned
RotatedIn == {r[2] : r \in hist.rotations}

\* C18: every stored session expires strictly later than it was created,
\* whether LoginUser stored it or RefreshSessionToken rotated it.
C18_ExpiresAfterCreated ==
    \A s \in sessions : s.expires_at > s.created_at

\* C18 witness: a stored session was rotated at a later time than the login
\* that created it.
C18_Witness ==
    \E s \in sessions :
        /\ s.refresh_token \in RotatedIn
        /\ s.created_at > 0
        /\ s.expires_at = s.created_at + SessionTTL

\* C19: no two stored sessions carry the same refresh token, so
\* GetSessionByRefreshToken has exactly one possible result for every token.
C19_RefreshTokensUnique ==
    /\ \A s1 \in sessions, s2 \in sessions :
          s1.refresh_token = s2.refresh_token => s1 = s2
    /\ \A t \in hist.issued :
          Cardinality(GetSessionByRefreshToken(sessions, t)) = 1

\* C19 witness: two sessions are stored, one with the token its login
\* returned and one with a token from a rotation.
C19_Witness ==
    /\ Cardinality(sessions) = 2
    /\ \E s1 \in sessions, s2 \in sessions :
          /\ s1.refresh_token \in RotatedIn
          /\ s2.refresh_token \notin RotatedIn

----------------------------------------------------------------------------
(* Properties of credentials and access tokens, checked under SpecAuth *)

\* a token string that NewAccessToken produced: signed with the configured
\* secret over its own header and claims
Genuine(token) ==
    /\ Len(token) = 3
    /\ DOMAIN token[2] = {"user_id", "exp", "iat"}
    /\ token = SignedAt(token[2].user_id, token[2].iat)

\* the step is a VerifyUser call that returns
VerifyUserReturns == last' # last /\ last'.op = "VerifyUser"

\* C5: for a genuine, unexpired access token of user u, VerifyUser returns u
\* exactly when users.is_blocked is false for u, and fails with "user is
\* blocked" exactly when it is true; UserIsBlocked returns true exactly when
\* the flag is set.
C5_VerifyUserFollowsBlockedFlag ==
    [][(/\ VerifyUserReturns
        /\ Genuine(last'.arg[1])
        /\ now <= last'.arg[1][2].exp
        /\ \E u \in users : u.id = last'.arg[1][2].user_id)
          => LET uid == last'.arg[1][2].user_id
                 flag == (CHOOSE u \in users : u.id = uid).is_blocked
             IN  /\ (last'.err = Nil /\ last'.out = <<uid>>) <=> ~flag
                 /\ (last'.err = ErrUserIsBlocked) <=> flag
                 /\ UserIsBlocked(users, uid).blocked = flag]_vars

\* C7: LoginUser with an existing login and a wrong password, and LoginUser
\* with a login that matches no user, return the same error, and the HTTP
\* and RPC adapters build the same response from it.
C7_LoginFailuresIndistinguishable ==
    \A l1 \in Logins, l2 \in Logins, p1 \in Passwords, p2 \in Passwords :
        \A r1 \in GetUserByLogin(users, l1), r2 \in GetUserByLogin(users, l2) :
            (/\ r1.err = Nil
             /\ ~verifyPassword(p1, r1.passwordHash)
             /\ r2.err # Nil)
                => /\ LoginFailure(r1, p1) = LoginFailure(r2, p2)
                   /\ HTTPLoginError(LoginFailure(r1, p1)) = HTTPLoginError(LoginFailure(r2, p2))
                   /\ RPCLoginError(LoginFailure(r1, p1)) = RPCLoginError(LoginFailure(r2, p2))

\* C8: the access token returned by a successful LoginUser, verified before
\* its expiry with the same secret, is accepted by VerifyAccessToken, which
\* returns the identifier of the user who logged in.
C8_IssuedTokenVerifies ==
    (/\ last.op = "LoginUser"
     /\ last.err = Nil
     /\ now <= last.out[2][2].exp)
        => VerifyAccessToken(last.out[2]) = [userID |-> last.out[1], err |-> Nil]

\* the login and password are those of a registered user
RegisteredCredentials(login, password) ==
    \E u \in users :
        /\ u.username = login \/ u.email = login
        /\ verifyPassword(password, u.password_hash)

\* C10: LoginUser with the username or the email and the password of a
\* registered user succeeds and returns a non-empty access token and a
\* refresh token that was not issued before.
C10_RegisteredUserCanLogin ==
    [][(/\ last' # last
        /\ last'.op = "LoginUser"
        /\ RegisteredCredentials(last'.arg[1], last'.arg[2]))
          => /\ last'.err = Nil
             /\ last'.out[2] # <<>>
             /\ UUIDParse(last'.out[3]).ok
             /\ UUIDParse(last'.out[3]).id \notin hist.issued]_vars

\* C28: a successful RegisterUser adds exactly one user record, the one it
\* returns the identifier of, and no RegisterUser call, successful or not,
\* changes the set of stored sessions.
C28_RegisterAddsOneUserNoSession ==
    [][(last' # last /\ last'.op = "RegisterUser")
          => /\ sessions' = sessions
             /\ last'.err = Nil
                   => /\ Cardinality(users') = Cardinality(users) + 1
                      /\ \E u \in users' \ users :
                            /\ users' = users \cup {u}
                            /\ u.id = last'.out[1]
                            /\ u.username = last'.arg[1]
                            /\ u.email = last'.arg[2]]_vars

\* C28 witness: a second user was registered while a session of the first
\* one was stored.
C28_Witness ==
    /\ last.op = "RegisterUser"
    /\ last.err = Nil
    /\ Cardinality(users) = 2
    /\ sessions # {}
    /\ \A s \in sessions : s.user_id # last.out[1]

----------------------------------------------------------------------------
(* Properties of registration, checked under SpecRegister *)

\* the step is a RegisterUser call that returns
RegisterUserReturns == last' # last /\ last'.op = "RegisterUser"

\* C11: RegisterUser reports the first failing rule in the order username,
\* email, password: an invalid username gives the username error whatever the
\* email and the password are, a valid username with an invalid email gives
\* the email error whatever the password is, and only with both valid is a
\* password error returned.
C11_FirstFailingRuleReported ==
    last.op = "RegisterUser" =>
        LET username == last.arg[1]
            email == last.arg[2]
            password == last.arg[3]
        IN  /\ ~validateUsername(username) => last.err = ErrUsername
            /\ (validateUsername(username) /\ ~validateEmail(email))
                  => last.err = ErrEmail
            /\ (/\ validateUsername(username) /\ validateEmail(email)
                /\ validatePassword(password) # Nil)
                  => last.err = validatePassword(password)
            /\ last.err \in PasswordErrors
                  => validateUsername(username) /\ validateEmail(email)

\* C11 witness: a RegisterUser call whose username, email and password are
\* all invalid has returned the username error.
C11_Witness ==
    /\ last.op = "RegisterUser"
    /\ ~validateUsername(last.arg[1])
    /\ ~validateEmail(last.arg[2])
    /\ validatePassword(last.arg[3]) # Nil
    /\ last.err = ErrUsername

\* the password breaks one of the five strength rules: fewer than 8
\* characters, no uppercase letter, no lowercase letter, no digit, no symbol
FailsStrengthRule(password) ==
    \/ Len(password) < 8
    \/ Chars(password) \cap UpperChars = {}
    \/ Chars(password) \cap LowerChars = {}
    \/ Chars(password) \cap NumberChars = {}
    \/ Chars(password) \cap (PunctChars \cup SymbolChars) = {}

\* C12: RegisterUser with a valid username, a valid email and a password that
\* breaks at least one of the five strength rules fails with one of the
\* password errors and leaves the users table as it is.
C12_WeakPasswordRejected ==
    [][(/\ RegisterUserReturns
        /\ validateUsername(last'.arg[1])
        /\ validateEmail(last'.arg[2])
        /\ FailsStrengthRule(last'.arg[3]))
          => /\ last'.err \in PasswordErrors
             /\ users' = users]_vars

\* no two users share an email or a username
UsersUnique(tbl) ==
    \A u1 \in tbl, u2 \in tbl :
        (u1.email = u2.email \/ u1.username = u2.username) => u1 = u2

\* C13: a RegisterUser whose email or username is held by a stored user, and
\* whose statement reaches the database, fails with the conflict error
\* ErrNoTagsAffected and leaves the users table as it is; emails and
\* usernames stay unique.
C13_DuplicateIsConflict ==
    [][/\ (/\ RegisterUserReturns
           /\ last'.err \notin {ErrUsername, ErrEmail, ErrPasswordTooLong, ErrConn}
                                   \cup PasswordErrors
           /\ \E u \in users :
                 u.username = last'.arg[1] \/ u.email = last'.arg[2])
             => /\ last'.err = ErrNoTagsAffected
                /\ users' = users
       /\ UsersUnique(users')]_vars

----------------------------------------------------------------------------
(* Properties of a failed login, checked under SpecFaults *)

\* C15: a LoginUser that returns an error, whether from GetUserByLogin (no
\* such login, or the statement failed), from verifyPassword, from
\* NewAccessToken or from StoreSession, leaves the sessions table as it is.
C15_FailedLoginStoresNothing ==
    [][(/\ last' # last
        /\ last'.op = "LoginUser"
        /\ last'.err # Nil)
          => sessions' = sessions]_vars

\* C15 witness: a LoginUser with the credentials of a registered user has
\* failed in StoreSession, and the session it built is not in the table.
C15_Witness ==
    /\ last.op = "LoginUser"
    /\ last.err = ErrConn
    /\ RegisteredCredentials(last.arg[1], last.arg[2])
    /\ last.seen # ZeroSession
    /\ last.seen.id \notin SessionIDs(sessions)

----------------------------------------------------------------------------
(* Properties of the logouts, checked under SpecTwoUsers *)

\* C16: LogoutSession(userID, sessionID) with well-formed identifiers returns
\* no error and removes exactly the sessions whose id is sessionID and whose
\* owner is userID: none when the session is owned by someone else or does
\* not exist.  A second call right after the first would change nothing.
\* With a malformed identifier nothing is removed.
C16_LogoutSessionRemovesOwnSession ==
    [][last'.op = "LogoutSession" =>
          LET uid == UUIDParse(last'.arg[1])
              sid == UUIDParse(last'.arg[2])
          IN  IF uid.ok /\ sid.ok
              THEN /\ last'.err = Nil
                   /\ sessions' = {s \in sessions :
                                      ~(s.id = sid.id /\ s.user_id = uid.id)}
                   /\ DeleteSession(sessions', uid.id, sid.id) = sessions'
                   /\ users' = users
              ELSE /\ last'.err # Nil
                   /\ sessions' = sessions
                   /\ users' = users]_vars

\* C16 witness: LogoutSession was called with the identifier of one user and
\* the session of another; it returned no error and the session is stored.
C16_Witness ==
    /\ last.op = "LogoutSession"
    /\ last.err = Nil
    /\ \E s \in sessions :
          /\ s.id = UUIDParse(last.arg[2]).id
          /\ s.user_id # UUIDParse(last.arg[1]).id

\* C17: LogoutAllSessions(userID) with a well-formed identifier returns no
\* error, whether or not the user has sessions, removes every session owned
\* by userID and leaves the sessions of the other users and the users table
\* as they are.
C17_LogoutAllRemovesOwnSessions ==
    [][last'.op = "LogoutAllSessions" =>
          LET uid == UUIDParse(last'.arg[1])
          IN  IF uid.ok
              THEN /\ last'.err = Nil
                   /\ sessions' = {s \in sessions : s.user_id # uid.id}
                   /\ users' = users
              ELSE /\ last'.err # Nil
                   /\ sessions' = sessions
                   /\ users' = users]_vars

\* C17 witness: LogoutAllSessions returned for a user who had a session; no
\* session of that user is stored and a session of another user still is.
C17_Witness ==
    /\ last.op = "LogoutAllSessions"
    /\ last.err = Nil
    /\ \E t \in hist.tokens : t[2] = UUIDParse(last.arg[1]).id
    /\ \A s \in sessions : s.user_id # UUIDParse(last.arg[1]).id
    /\ sessions # {}

----------------------------------------------------------------------------
(* Properties of the authentication gate, checked under SpecGate *)

\* the request w went to a method or route that requires authentication
Protected(w) ==
    \/ w.transport = "rpc" /\ w.method \notin publicMethods
    \/ w.transport = "http" /\ w.method \in ProtectedRoutes

\* the request w carries a token that NewAccessToken signed for a user whose
\* is_blocked flag is set in the table tbl
CarriesTokenOfBlockedUser(w, tbl) ==
    /\ w.credential.kind = "authorization"
    /\ Genuine(w.credential.token)
    /\ \E u \in tbl : u.id = w.credential.token[2].user_id /\ u.is_blocked

\* C20: on both transports, the handler of a protected request that carries
\* a validly signed token of a user whose is_blocked flag is set does not
\* run: the gate in front of it is VerifyUser, which rejects the request.
\* The first conjunct is about the requests the two servers answer, the
\* second about the gate of the RPC transport: whatever its JWTManager
\* answers for the token, AuthInterceptor does not invoke the handler of a
\* protected method for a user whose is_blocked flag is set in table users.
C20_BlockedUserNeverReachesHandler ==
    [][/\ (/\ wire'.n # wire.n
            /\ Protected(wire')
            /\ CarriesTokenOfBlockedUser(wire', users))
              => ~wire'.handler
       /\ \A m \in RPCMethods \ publicMethods, v \in JWTManagerAnswers :
             \A t \in AccessTokenStrings, b \in BOOLEAN :
                \A u \in users :
                   (u.id = v.userID /\ u.is_blocked)
                      => ~AuthInterceptorOver(v, m, Authorization(b, t)).handler]_vars

----------------------------------------------------------------------------
(* Properties of the token verifier, checked under SpecVerify *)

\* what the verifier must not accept: a signature that does not validate
\* against the configured secret, a signing method outside the HMAC family,
\* a string that is not a token, an empty subject, a passed expiry
SignatureInvalid(token) ==
    /\ Len(token) = 3
    /\ token[3] # HMACSign(token[1], token[2], AsBytes(SecretKey))
NotHMAC(token) == Len(token) = 3 /\ token[1].alg \notin HMACMethods
Malformed(token) == Len(token) # 3
SubjectEmpty(token) == Len(token) = 3 /\ GetSubject(token[2]) = NilUUID
Expired(token) ==
    Len(token) = 3 /\ "exp" \in DOMAIN token[2] /\ now > token[2].exp

Unacceptable(token) ==
    \/ SignatureInvalid(token)
    \/ NotHMAC(token)
    \/ Malformed(token)
    \/ SubjectEmpty(token)
    \/ Expired(token)

\* C21: VerifyAccessToken fails and returns no user identifier for every
\* token whose signature does not validate against the configured secret,
\* whose signing method is not HMAC, that is malformed, whose subject is
\* empty or whose expiry has passed.
C21_UnacceptableTokenRejected ==
    \A t \in VerifyTokens :
        Unacceptable(t) => /\ VerifyAccessToken(t).err # Nil
                           /\ VerifyAccessToken(t).userID = NilUUID

\* a token with a subject, signed with another key and not expired, was
\* presented and refused
C21_Witness ==
    /\ last.op = "VerifyUser"
    /\ SignatureInvalid(last.arg[1])
    /\ ~NotHMAC(last.arg[1])
    /\ ~SubjectEmpty(last.arg[1])
    /\ ~Expired(last.arg[1])
    /\ last.err # Nil
    /\ last.out = <<NilUUID>>

----------------------------------------------------------------------------
(* Properties of blocked accounts, checked under SpecBlocked *)

\* C22: LoginUser with the credentials of a registered user and
\* RefreshSessionToken with the refresh token of a stored session succeed and
\* return tokens whatever the blocked flag of the user is: the result is
\* determined by the credentials, the session, the clock and the next UUID,
\* and is the same for a blocked and an unblocked user.
C22_BlockedFlagNotReadByLoginAndRefresh ==
    [][/\ (/\ last' # last
            /\ last'.op = "LoginUser"
            /\ RegisteredCredentials(last'.arg[1], last'.arg[2]))
              => \E u \in users :
                    /\ u.username = last'.arg[1] \/ u.email = last'.arg[1]
                    /\ last'.err = Nil
                    /\ last'.out = <<u.id, SignedAt(u.id, now), UUIDString(nextUUID)>>
       /\ (/\ calls[1].pc = "lookedUp"
            /\ calls'[1].pc = "idle")
              => /\ last'.op = "RefreshSessionToken"
                 /\ last'.err = Nil
                 /\ last'.out = <<SignedAt(calls[1].session.user_id, now),
                                  UUIDString(nextUUID)>>]_vars

\* C22 witness: a user blocked on day 0 logged in on a later day, and the
\* session of that login was then refreshed.
C22_Witness ==
    /\ last.op = "RefreshSessionToken"
    /\ last.err = Nil
    /\ last.at > 0
    /\ last.seen.created_at > 0
    /\ UUIDParse(last.arg[1]).id \notin RotatedIn
    /\ \E u \in users : u.id = last.seen.user_id /\ u.is_blocked

----------------------------------------------------------------------------
(* Properties of the adapters' answers, checked under SpecAnswers *)

\* the errors of RefreshSessionToken for a refresh token that is malformed,
\* unknown, rotated away or expired
RefreshAuthFailures == {ErrInvalidSessionID, ErrNoRows, ErrSessionExpired}

\* the step is the answer of the handler of method to a call of op
HandlerAnswers(method, op) ==
    /\ wire' # wire
    /\ wire'.method = method
    /\ wire'.handler
    /\ wire'.status \notin {"pending", "InvalidArgument", "400"}
    /\ last'.op = op

\* C25: a RefreshSessionToken that fails because the refresh token is
\* unknown, rotated away or expired is answered Unauthenticated, and a
\* failed LoginUser is answered with the same status and message whichever
\* check failed.
C25_AuthFailuresAnsweredUnauthorized ==
    [][/\ (/\ HandlerAnswers(RPCRefreshSession, "RefreshSessionToken")
            /\ last'.err \in RefreshAuthFailures)
              => wire'.status = "Unauthenticated"
       /\ (/\ HandlerAnswers("/login", "LoginUser")
            /\ last'.err # Nil)
              => /\ wire'.status = "401"
                 /\ HTTPLoginError(last'.err) = HTTPLoginError(ErrInvalidCredentials)
       /\ (/\ HandlerAnswers(RPCLogin, "LoginUser")
            /\ last'.err # Nil)
              => /\ wire'.status = "Unauthenticated"
                 /\ RPCLoginError(last'.err) = RPCLoginError(ErrInvalidCredentials)]_vars

----------------------------------------------------------------------------
(* Properties of the repository calls of an operation, checked under SpecCalls *)

\* the returned operation reports the failure of each repository method it
\* invoked
ReportsFailures(r) ==
    \A i \in DOMAIN r.repo : r.repo[i].err # Nil => r.err = r.repo[i].err

\* C23: whenever a repository call invoked by an operation fails, the
\* operation returns that error; so does RefreshSessionToken on its
\* expired-session path when the DeleteSession it issues for the session
\* fails.
C23_NoErrorSwallowed ==
    /\ ReportsFailures(last)
    /\ \A x \in sessions :
          LET deleted == DeleteSessionExec(sessions, x.user_id, x.id, TRUE)
          IN  ExpiredSessionReturn(deleted) = deleted.err

\* the part of C23 that the code keeps: every operation that returned has
\* returned the error of the repository method that failed
C23_ReturnedCallsReportFailures == ReportsFailures(last)

\* C29: within one call of an operation every repository method is invoked
\* at most once, and nothing is invoked after a call that failed.
C29_NoRetry ==
    /\ \A i \in DOMAIN last.repo, j \in DOMAIN last.repo :
          last.repo[i].method = last.repo[j].method => i = j
    /\ \A i \in DOMAIN last.repo :
          last.repo[i].err # Nil => i = Len(last.repo)

\* C29 witness: a LoginUser whose StoreSession failed has returned after one
\* GetUserByLogin and one StoreSession.
C29_Witness ==
    /\ last.op = "LoginUser"
    /\ last.repo = <<Call("GetUserByLogin", Nil), Call("StoreSession", ErrConn)>>
    /\ last.err = ErrConn

----------------------------------------------------------------------------
(* Properties of concurrent calls, checked under SpecConcurrent *)

\* caller p has looked up a session that is still stored with the refresh
\* token p presented
InFlight(p) ==
    /\ calls[p].pc = "lookedUp"
    /\ \E x \in sessions :
          /\ x.id = calls[p].session.id
          /\ x.refresh_token = UUIDParse(calls[p].arg).id

\* the logouts that target something else than session a: LogoutSession of
\* another session, LogoutAllSessions of another user
OtherLogouts(a) ==
    {[op |-> "LogoutSession", user_id |-> b.user_id, id |-> b.id] :
        b \in {x \in sessions : x.id # a.id}}
    \cup
    {[op |-> "LogoutAllSessions", user_id |-> u.id, id |-> NilUUID] :
        u \in {x \in users : x.id # a.user_id}}

\* the table that the logout B leaves of tbl
AfterLogout(B, tbl) ==
    IF B.op = "LogoutSession" THEN DeleteSession(tbl, B.user_id, B.id)
    ELSE DeleteAllSessions(tbl, B.user_id)

\* C27: a refresh of session a and a concurrent call that targets another
\* session or another user leave the same table and return the same results
\* in every interleaving: the other call between the lookup and the update of
\* the refresh, after the refresh, or before it.  The new refresh tokens are
\* the same in every order.
C27_CallsOnDifferentSessionsCommute ==
    \A p \in Callers :
        InFlight(p) =>
            LET a == calls[p].session
                rt == UUIDParse(calls[p].arg).id
                t == nextUUID
                t2 == nextUUID + 1
                between(B) == RefreshSession(AfterLogout(B, sessions), RotatedBy(a, t))
                after(B) == AfterLogout(B, RefreshSession(sessions, RotatedBy(a, t)))
            IN  /\ \A B \in OtherLogouts(a) :
                      /\ between(B) = after(B)
                      /\ RefreshOutcome(AfterLogout(B, sessions), rt, t)
                            = {[sessions |-> between(B), err |-> Nil, token |-> t]}
                /\ \A b \in {x \in sessions : x.id # a.id} :
                      LET first == RefreshSession(sessions, RotatedBy(a, t))
                      IN  /\ {[o EXCEPT !.sessions = RefreshSession(@, RotatedBy(a, t))] :
                                 o \in RefreshOutcome(sessions, b.refresh_token, t2)}
                               = RefreshOutcome(first, b.refresh_token, t2)
                          /\ \A o \in RefreshOutcome(sessions, b.refresh_token, t2) :
                                RefreshOutcome(o.sessions, rt, t)
                                  = {[sessions |->
                                        RefreshSession(o.sessions, RotatedBy(a, t)),
                                      err |-> Nil, token |-> t]}

\* C27 witness: the two callers are between lookup and update of refreshes of
\* the sessions of two different users.
C27_Witness ==
    /\ InFlight(1)
    /\ InFlight(2)
    /\ calls[1].session.id # calls[2].session.id
    /\ calls[1].session.user_id # calls[2].session.user_id

----------------------------------------------------------------------------
(* Properties of cancelled requests, checked under SpecStalls *)

\* the repository methods in the body of each operation of the usecase
RepositoryCallsOf(op) ==
    CASE op = "RegisterUser" -> {"CreateUser"}
      [] op = "LoginUser" -> {"GetUserByLogin", "StoreSession"}
      [] op = "RefreshSessionToken" ->
            {"GetSessionByRefreshToken", "DeleteSession", "RefreshSession"}
      [] op = "LogoutSession" -> {"DeleteSession"}
      [] op = "LogoutAllSessions" -> {"DeleteAllSessions"}
      [] op = "VerifyUser" -> {"UserIsBlocked"}

\* C24: the cancellation of the caller's request reaches every repository
\* call of the six operations: each repository method in the body of an
\* operation is given the context of the request, the blocked-user lookup of
\* VerifyUser as well as the calls of the other five.
C24_CancelReachesEveryRepositoryCall ==
    \A c \in StallCalls : \A method \in RepositoryCallsOf(c.op) :
        /\ Reaches(c) \subseteq RepositoryCallsOf(c.op)
        /\ ContextOf(method) = "request"

\* the part of C24 about the calls that do stall: when the request of a
\* caller is cancelled while a repository call of its operation is stalled,
\* the operation returns and the caller does not stay blocked
C24_CancelledCallReturns ==
    \A p \in Callers : (calls[p].pc = "cancelled") ~> (calls[p].pc = "idle")

----------------------------------------------------------------------------
(* Properties of the issued access tokens, checked under SpecConcurrent *)

\* the user identifier that an access token asserts
AssertedUser(token) == token[2].user_id

\* C31: the access token of a successful LoginUser asserts the identifier
\* of the user whose password was verified, and the access token of a
\* successful RefreshSessionToken asserts the identifier of the owner of the
\* session that carried the presented refresh token.
C31_AccessTokenAssertsRightUser ==
    [][/\ (/\ last' # last
            /\ last'.op = "LoginUser"
            /\ last'.err = Nil)
              => /\ AssertedUser(last'.out[2]) = last'.out[1]
                 /\ \E u \in users :
                       /\ u.id = AssertedUser(last'.out[2])
                       /\ u.username = last'.arg[1] \/ u.email = last'.arg[1]
                       /\ verifyPassword(last'.arg[2], u.password_hash)
       /\ \A p \in Callers :
             RefreshSucceeds(p) =>
                 /\ AssertedUser(last'.out[1]) = calls[p].session.user_id
                 /\ <<UUIDParse(calls[p].arg).id, AssertedUser(last'.out[1])>>
                       \in hist.tokens]_vars

\* C31 witness: with two users registered, the session of the second user
\* was refreshed and the access token returned asserts the second user.
C31_Witness ==
    /\ last.op = "RefreshSessionToken"
    /\ last.err = Nil
    /\ Cardinality(users) = 2
    /\ AssertedUser(last.out[1]) = last.seen.user_id
    /\ \E u \in users : u.id < last.seen.user_id

----------------------------------------------------------------------------
(* Properties of a successful login, checked under SpecLogins *)

\* C32: a successful LoginUser adds exactly one session: owned by the
\* authenticated user, with an identifier never stored before, the returned
\* refresh token, createdAt = now, expiresAt = now + 15 days and the user
\* agent and client address of the call; every session stored before, the
\* same user's included, and every user record is unchanged.
C32_LoginAddsOneSession ==
    [][(/\ last' # last
        /\ last'.op = "LoginUser"
        /\ last'.err = Nil)
          => /\ users' = users
             /\ sessions \subseteq sessions'
             /\ Cardinality(sessions') = Cardinality(sessions) + 1
             /\ \A x \in sessions' \ sessions :
                   /\ x.id \notin hist.ids
                   /\ x.user_id = last'.out[1]
                   /\ UUIDString(x.refresh_token) = last'.out[3]
                   /\ x.created_at = now
                   /\ x.expires_at = now + SessionTTL
                   /\ x.user_agent = last'.arg[3]
                   /\ x.ip_address = last'.arg[4]]_vars

\* C32 witness: a user who already held a session logged in from another
\* device on a later day and now holds both sessions.
C32_Witness ==
    /\ last.op = "LoginUser"
    /\ last.err = Nil
    /\ \E x \in sessions, y \in sessions :
          /\ x.user_id = last.out[1]
          /\ y.user_id = last.out[1]
          /\ UUIDString(y.refresh_token) = last.out[3]
          /\ x.created_at < y.created_at
          /\ x.user_agent # y.user_agent

----------------------------------------------------------------------------
(* Properties of the login lookup, checked under SpecAuth *)

\* C33: the login lookup matches at most one user: no two distinct users
\* are stored such that the username of one equals the email of the other.
C33_LoginMatchesOneUser ==
    \A u \in users, v \in users :
        u # v => u.username # v.email

----------------------------------------------------------------------------
(* Properties of the logout requests, checked under SpecOwners *)

\* the logout methods of the two transports
LogoutMethods == {RPCLogout, RPCLogoutAll} \cup ProtectedRoutes

\* C34: a Logout or LogoutAll request that passed the authentication gate
\* deletes only sessions of the authenticated caller, the user whose
\* identifier token verification put into the handler's context.
\* The first conjunct is about the requests the two servers answer, the
\* second about the handlers: for every caller a in the context and every
\* request, the rows that DeleteSession and DeleteAllSessions remove for the
\* user identifier the handler hands over are sessions of a.
C34_LogoutDeletesOnlyCallersSessions ==
    [][/\ (/\ wire' # wire
            /\ wire'.method \in LogoutMethods
            /\ wire'.handler)
              => \A x \in sessions \ sessions' :
                    UUIDString(x.user_id) = wire'.ctxUserID
       /\ \A a \in users, m \in {RPCLogout, RPCLogoutAll} : \A req \in Requests(m) :
             LET uid == UUIDParse(LogoutUserID(UUIDString(a.id), req))
                 sid == UUIDParse(req.session_id)
                 left == IF m = RPCLogoutAll THEN DeleteAllSessions(sessions, uid.id)
                         ELSE DeleteSession(sessions, uid.id, sid.id)
             IN  (uid.ok /\ (m = RPCLogoutAll \/ sid.ok))
                    => \A x \in sessions \ left : x.user_id = a.id]_vars

----------------------------------------------------------------------------
(* Properties of the refresh endpoint, checked under SpecRefresh *)

\* the refresh endpoint of the two transports
RefreshEndpoints == {RPCRefreshSession, "/refresh"}

\* C35: the refresh endpoint is reachable and not gated by access-token
\* verification: a refresh request that presents the refresh token of a
\* stored, unexpired session reaches its handler whatever access token it
\* carries, expired or none.
C35_RefreshReachableWithoutAccessToken ==
    [][(/\ wire' # wire
        /\ wire'.method \in RefreshEndpoints)
          => wire'.handler]_vars

----------------------------------------------------------------------------
(* Properties of AuthInterceptor, checked under SpecInterceptor *)

\* the metadata md carries an authorization value whose token, after the
\* prefix "Bearer " is stripped, verifies
CarriesVerifiedToken(md) ==
    /\ md.kind = "authorization"
    /\ VerifyAccessToken(TrimPrefixBearer(md)).err = Nil

\* the kinds of metadata a call may carry, for a token t
MetadataOf(t) ==
    {NoMetadata, NoAuthorization} \cup {Authorization(b, t) : b \in BOOLEAN}

\* C36: exactly Register and Login bypass authentication; the handler of any
\* other method is invoked only if the metadata carries an authorization
\* value whose token verifies, with the verified user identifier in its
\* context; otherwise the call is answered Unauthenticated and the handler is
\* not invoked: no usecase call is made and nothing is written.  The first
\* conjunct is about the calls the server of func main answers, the second
\* about the interceptor over any answer v of its JWTManager.
C36_InterceptorGate ==
    [][/\ (/\ wire'.n # wire.n
            /\ wire'.transport = "rpc")
              => IF wire'.method \in {RPCRegister, RPCLogin}
                 THEN wire'.handler
                 ELSE IF CarriesVerifiedToken(wire'.credential)
                 THEN /\ wire'.handler
                      /\ wire'.ctxUserID =
                            UUIDString(VerifyAccessToken(wire'.credential.token).userID)
                 ELSE /\ ~wire'.handler
                      /\ wire'.status = "Unauthenticated"
                      /\ UNCHANGED <<users, sessions, calls, last, hist, nextUUID>>
       /\ \A m \in RPCMethods, v \in JWTManagerAnswers, t \in AccessTokenStrings :
             \A md \in MetadataOf(t) :
                LET gate == AuthInterceptorOver(v, m, md)
                IN  IF m \in {RPCRegister, RPCLogin} THEN gate.handler
                    ELSE IF md.kind = "authorization" /\ v.err = Nil
                    THEN /\ gate.handler
                         /\ gate.ctxUserID = UUIDString(v.userID)
                    ELSE /\ ~gate.handler
                         /\ gate.status = "Unauthenticated"]_vars

\* C36 witness: after a Login call without metadata went through to its
\* handler and logged the user in, a Logout call with "Bearer " and the
\* token of that login was answered Unauthenticated without its handler.
C36_Witness ==
    /\ wire.transport = "rpc"
    /\ wire.method = RPCLogout
    /\ ~wire.handler
    /\ wire.status = "Unauthenticated"
    /\ wire.credential.kind = "authorization"
    /\ wire.credential.bearer
    /\ Genuine(wire.credential.token)
    /\ last.op = "LoginUser"
    /\ last.err = Nil
    /\ JWTManagerAnswers # {v \in JWTManagerAnswers : v.err # Nil}

----------------------------------------------------------------------------
(* Properties of the interceptor chain, checked under SpecChain *)

\* a call was answered through the chain
Served == wire.transport = "rpc" /\ "answer" \in DOMAIN wire /\ wire.status # "pending"

\* what the chain makes of what the handler behind LoggingInterceptor
\* handed back
MappedByInterceptors(inner, answer) ==
    IF ~inner.panic /\ inner.err.kind \in {"nil", "status"}
    THEN answer = inner
    ELSE answer = Returns(NoResponse, StatusError("Internal", <<"internal server error">>))

\* C38 (supporting): what LoggingInterceptor and RecoveryInterceptor do with
\* what the handler behind them hands back: a nil error and an error with a
\* status reach the client as they are, any other error and a panic reach
\* it as Internal "internal server error" with a nil response.  For the
\* calls answered, and for every handler: one that answers, one that fails
\* with a status or with the plain error of a call it made, one that panics.
C38_InterceptorsMapHandlerErrors ==
    /\ Served => MappedByInterceptors(wire.inner, wire.answer)
    /\ \A m \in RPCMethods, md \in RPCCredentials : \A result \in HandlerResults(m) :
          LET c == ChainUnaryInterceptor(m, md, result)
          IN  /\ MappedByInterceptors(c.inner, c.answer)
              /\ c.gate.handler => c.inner = result

\* C38: no error text of the database driver or of the token library
\* reaches an RPC client: the message of an answer contains none.
C38_NoRawErrorTextReachesClient ==
    Served =>
        \A i \in DOMAIN wire.answer.err.message :
            wire.answer.err.message[i] \notin StorageErrors \cup LibraryErrors

----------------------------------------------------------------------------
(* Properties of the shutdown, checked under SpecMain *)

\* the interrupt signal arrived, or a server goroutine returned an error
ShutdownCause == main.signal \/ main.grpc.err # Nil \/ main.http.err # Nil

\* the process has exited with both servers shut down, the three goroutines
\* returned, and an error status exactly if a server goroutine returned an
\* error
ExitedCleanly ==
    /\ main.grpcServer = "stopped"
    /\ main.httpServer \in {"shutdown", "failed"}
    /\ main.grpc.pc = "returned"
    /\ main.http.pc = "returned"
    /\ main.shutdown.pc = "returned"
    /\ main.status # 0 <=> (main.grpc.err # Nil \/ main.http.err # Nil)

\* C37: after an interrupt signal, or after the HTTP or the gRPC server
\* failed to start or serve, the process eventually exits; when it has
\* exited both servers are shut down, gracefully or by the forced stop after
\* the timeout, the wait on the three goroutines has returned, and the exit
\* status is an error status exactly if one of the servers returned an
\* error.
C37_ShutdownTerminates ==
    /\ [](main.pc = "exited" => ExitedCleanly)
    /\ ShutdownCause ~> (main.pc = "exited")

\* the part of C37 up to the return of g.Wait: after a shutdown cause the
\* wait on the three goroutines returns, and a process that exited by
\* os.Exit(1) or by the return of func main has shut both servers down and
\* reports the error status exactly if a server returned an error
C37_WaitReturns ==
    /\ []((main.pc = "exited" /\ main.status # StatusInterrupt) => ExitedCleanly)
    /\ ShutdownCause ~> (main.pc # "g.Wait")

\* func main has returned and waits in pool.Close() for the connection that
\* the handler of an HTTP request holds
HeldInPoolClose == main.pc = "pool.Close" /\ main.httpStmts > 0

\* the part of C37 after the return of g.Wait: the process exits unless the
\* handler of an HTTP request waits for a statement
C37_ExitsUnlessStatementHeld ==
    ShutdownCause ~> (main.pc = "exited" \/ HeldInPoolClose)

====
